---- MODULE Spec2Model ----
(***************************************************************************)
(* Model of houlak-cli's database connection lifecycle:                    *)
(*   cli.db_connect -> db_connect.connect_to_database                      *)
(*   (session validation, config lookup, port probing, tunnel launch,      *)
(*    history recording, signal handling and shutdown)                     *)
(* and of config.Config's cache / last-connection persistence.             *)
(***************************************************************************)
EXTENDS Integers, Sequences, FiniteSets, TLC

----------------------------------------------------------------------------
(* Bounds of the model *)

\* number of SIGINT/SIGTERM deliveries explored in one invocation
MaxSignals == 2
\* number of save_last_connection calls explored on one Config object
MaxSaves == 2
\* largest scan window explored with every set of busy ports
MaxScan == 3
\* number of Config.set calls explored on one Config object
MaxSets == 2
\* number of write_aws_profile calls explored on one AWS config file
MaxWrites == 2
\* capacity of the pipe of the subprocess's captured output, in chunks
MaxPipe == 3
\* largest output, in chunks, a subprocess writes before it ends
MaxOutput == 5

----------------------------------------------------------------------------
(* Program constants *)

\* db_connect.py:234  for i in range(30)
PollAttempts == 30
\* utils.py:99  max_attempts: int = 10
MaxAttempts == 10
\* constants.py:23,24  postgres / postgresql
PostgresLocalPort == 54320
\* constants.py:25,26  mariadb / mysql
MariaLocalPort == 33060

----------------------------------------------------------------------------
(* Python values.  A JSON-derived value is tagged with its Python type;    *)
(* Missing marks a key that is absent from a dict.                         *)

PyStr(s) == [t |-> "str", s |-> s, n |-> 0]
PyInt(n) == [t |-> "int", s |-> "", n |-> n]
PyNone == [t |-> "None", s |-> "", n |-> 0]
Missing == [t |-> "missing", s |-> "", n |-> 0]

\* Python truthiness: bool(v)
Truthy(v) ==
    CASE v.t = "str" -> v.s # ""
      [] v.t = "int" -> v.n # 0
      [] OTHER -> FALSE

\* dict.get(key) / dict.get(key, default)
DictGet(d, k) == IF d[k] = Missing THEN PyNone ELSE d[k]
DictGetDefault(d, k, default) == IF d[k] = Missing THEN default ELSE d[k]

\* str.lower() on the engine names and user names the model uses
Lower(s) ==
    CASE s = "MariaDB" -> "mariadb"
      [] s = "Postgres" -> "postgres"
      [] s = "EPerroud" -> "eperroud"
      [] s = "Mallory" -> "mallory"
      [] OTHER -> s

\* an Optional[int] that is None
NonePort == -1

----------------------------------------------------------------------------
(* Database records of the parameter store *)

RecordFields == {"bastionInstanceId", "rdsEndpoint", "rdsPort", "region",
                 "engine", "environment"}

EmptyDict == [f \in RecordFields |-> Missing]

MkRecord(b, h, p, r, e, env) ==
    [f \in RecordFields |->
        CASE f = "bastionInstanceId" -> b
          [] f = "rdsEndpoint" -> h
          [] f = "rdsPort" -> p
          [] f = "region" -> r
          [] f = "engine" -> e
          [] f = "environment" -> env]

GoodRecord == MkRecord(PyStr("i-0123"), PyStr("db.internal"), PyInt(5432),
                       PyStr("eu-west-1"), PyStr("postgres"), PyStr("dev"))

\* records the store may hold for the requested name
StoreRecords ==
    { GoodRecord,
      MkRecord(PyStr("i-0123"), PyStr("db.internal"), PyInt(3306),
               Missing, PyStr("MariaDB"), Missing),
      MkRecord(PyStr("i-0123"), PyStr("db.internal"), PyInt(1521),
               PyStr("eu-west-1"), PyStr("oracle"), PyStr("dev")),
      MkRecord(Missing, PyStr("db.internal"), PyInt(5432),
               PyStr("eu-west-1"), PyStr("postgres"), PyStr("dev")),
      MkRecord(PyStr("i-0123"), PyStr(""), PyInt(5432),
               PyStr("eu-west-1"), PyStr("postgres"), PyStr("dev")),
      MkRecord(PyStr("i-0123"), PyStr("db.internal"), PyInt(0),
               PyStr("eu-west-1"), PyStr("postgres"), PyStr("dev")),
      MkRecord(PyStr("i-0123"), PyStr("db.internal"), Missing,
               Missing, PyStr("postgres"), Missing),
      EmptyDict }

\* Optional[Dict]: None, or a dict
NoConfig == [none |-> TRUE, d |-> EmptyDict]
SomeConfig(r) == [none |-> FALSE, d |-> r]

\* bool(db_config): None and the empty dict are both falsy
ConfigTruthy(c) == ~c.none /\ c.d # EmptyDict

\* outcomes of the external lookup ssm.get_parameter + json.loads
LookupOutcomes == {"ok", "ParameterNotFound", "AccessDeniedException",
                   "NoCredentials", "InvalidJSON", "OtherError"}

\* aws_helper.get_database_config: returned value
get_database_config(outcome, rec) ==
    IF outcome = "ok" THEN SomeConfig(rec) ELSE NoConfig

\* aws_helper.get_database_config: message printed by the resolver
get_database_config_msg(outcome) ==
    CASE outcome = "ok" -> {}
      [] outcome = "ParameterNotFound" -> {"NotFound"}
      [] outcome = "AccessDeniedException" -> {"AwsError"}
      [] outcome = "NoCredentials" -> {"NoCredentials"}
      [] outcome = "InvalidJSON" -> {"InvalidJson"}
      [] OTHER -> {"FetchError"}

\* db_connect.py:93  the required-fields test
RequiredFieldsMissing(d) ==
    \/ ~Truthy(DictGet(d, "bastionInstanceId"))
    \/ ~Truthy(DictGet(d, "rdsEndpoint"))
    \/ ~Truthy(DictGet(d, "rdsPort"))

----------------------------------------------------------------------------
(* Port prober *)

\* constants.DEFAULT_PORTS
DEFAULT_PORTS ==
    [e \in {"postgres", "postgresql", "mariadb", "mysql"} |->
        IF e \in {"postgres", "postgresql"} THEN PostgresLocalPort
        ELSE MariaLocalPort]

DEFAULT_ENGINE == "postgres"

\* variant: the engine name is looked up as spelled in the record
DefaultPortFor_m(engine) ==
    IF engine \in DOMAIN DEFAULT_PORTS
    THEN DEFAULT_PORTS[engine]
    ELSE DEFAULT_PORTS[DEFAULT_ENGINE]

\* DEFAULT_PORTS.get(engine.lower(), DEFAULT_PORTS[DEFAULT_ENGINE])
DefaultPortFor(engine) ==
    IF Lower(engine) \in DOMAIN DEFAULT_PORTS
    THEN DEFAULT_PORTS[Lower(engine)]
    ELSE DEFAULT_PORTS[DEFAULT_ENGINE]

\* variant: the probe never finds a listener
is_port_in_use_m(port, used) == FALSE

\* utils.is_port_in_use against the set of ports with a listener
is_port_in_use(port, used) == port \in used

\* utils.find_available_port: first free port of the window, NonePort if none
RECURSIVE ScanFrom(_, _, _)
ScanFrom(port, stop, used) ==
    IF port >= stop THEN NonePort
    ELSE IF ~is_port_in_use(port, used) THEN port
    ELSE ScanFrom(port + 1, stop, used)

\* variant: the scan also tries the port after the window
find_available_port_m(start_port, max_attempts, used) ==
    ScanFrom(start_port, start_port + max_attempts + 1, used)

find_available_port(start_port, max_attempts, used) ==
    ScanFrom(start_port, start_port + max_attempts, used)

\* sets of busy ports the prober may meet around a start port
UsedPortSets(start) ==
    { {}, {start}, start .. (start + MaxAttempts - 1) }

\* the busy ports at the time of the scan that follows the first probe: as
\* they were, or with the single listener gone meanwhile
LaterPortSets(start, used) ==
    IF used = {start} THEN { used, {} } ELSE { used }

----------------------------------------------------------------------------
(* config.Config: the cache dict, its JSON file, the last-connection slot *)

CacheKeys == {"last_connection", "test_key"}

ConnKeys == {"database", "engine", "environment", "port", "profile"}

\* self.cache == {}
EmptyCache == [k \in CacheKeys |-> Missing]

\* variant: every scalar is written as a JSON string
JsonOfPy_m(v) ==
    CASE v.t = "str" -> [j |-> "string", s |-> v.s, n |-> 0]
      [] v.t = "int" -> [j |-> "string", s |-> "n", n |-> 0]
      [] OTHER -> [j |-> "null", s |-> "", n |-> 0]

\* a JSON scalar as written in the file
JsonOfPy(v) ==
    CASE v.t = "str" -> [j |-> "string", s |-> v.s, n |-> 0]
      [] v.t = "int" -> [j |-> "number", s |-> "", n |-> v.n]
      [] OTHER -> [j |-> "null", s |-> "", n |-> 0]

\* the Python value json.load builds from a JSON scalar
PyOfJson(l) ==
    CASE l.j = "string" -> PyStr(l.s)
      [] l.j = "number" -> PyInt(l.n)
      [] OTHER -> PyNone

\* json.dump(self.cache, f): an object holding the keys that are present
json_dump(c) ==
    [k \in {x \in CacheKeys : c[x] # Missing} |->
        IF k = "last_connection"
        THEN [f \in ConnKeys |-> JsonOfPy(c[k][f])]
        ELSE JsonOfPy(c[k])]

\* json.load(f) of such an object
json_load(text) ==
    [k \in CacheKeys |->
        IF k \notin DOMAIN text THEN Missing
        ELSE IF k = "last_connection"
        THEN [f \in ConnKeys |-> PyOfJson(text[k][f])]
        ELSE PyOfJson(text[k])]

\* the cache file: absent, unparseable, or a JSON object
AbsentFile == [kind |-> "absent", text |-> << >>]
CorruptFile == [kind |-> "corrupt", text |-> << >>]
JsonFile(text) == [kind |-> "json", text |-> text]

\* Config._load_cache
load_cache(file) ==
    IF file.kind = "json" THEN json_load(file.text) ELSE EmptyCache

\* outcomes of open(cache_file, "w") + json.dump
IoOutcomes == {"ok", "open_fails", "write_fails"}

\* Config.save_cache: the file afterwards (an exception is caught and printed)
save_cache(c, file, io) ==
    CASE io = "ok" -> JsonFile(json_dump(c))
      [] io = "open_fails" -> file
      [] OTHER -> CorruptFile

\* variant: save_cache without its try/except
save_cache_raises_m(io) == io # "ok"

\* Config.save_cache: does the exception leave the method?
save_cache_raises(io) == FALSE

\* Config.save_last_connection: the cache dict afterwards
save_last_connection(c, database, engine, env, port_, profile_) ==
    [c EXCEPT !["last_connection"] =
        [database |-> PyStr(database), engine |-> engine,
         environment |-> env, port |-> PyInt(port_),
         profile |-> PyStr(profile_)]]

\* Config.get_last_connection
get_last_connection(c) ==
    IF c["last_connection"] = Missing THEN PyNone ELSE c["last_connection"]

\* a previously stored connection
OldConnection ==
    [database |-> PyStr("old-db"), engine |-> PyStr("mysql"),
     environment |-> PyStr("prod"), port |-> PyInt(33060),
     profile |-> PyStr("old")]

\* cache files an invocation may start from
OldFile ==
    JsonFile(json_dump([EmptyCache EXCEPT !["last_connection"] = OldConnection,
                                          !["test_key"] = PyStr("v")]))

InitialFiles == { AbsentFile, OldFile }

----------------------------------------------------------------------------
(* config.Config: the data dict with dot-notation keys.  A key is a string, *)
(* kept as its sequence of characters; a dict is a function from its keys. *)

\* a dict value
PyDict(d) == [t |-> "dict", s |-> "", n |-> 0, d |-> d]

\* {}
EmptyData == [k \in {} |-> PyNone]

\* variant: an existing key keeps its value
Put_m(d, k, v) ==
    [x \in (DOMAIN d) \cup {k} |-> IF x \in DOMAIN d THEN d[x] ELSE v]

\* d[k] = v
Put(d, k, v) ==
    [x \in (DOMAIN d) \cup {k} |-> IF x = k THEN v ELSE d[x]]

\* key.split("."): the components between the dots
RECURSIVE Split(_)
Split(key) ==
    IF \A i \in 1 .. Len(key) : key[i] # "." THEN << key >>
    ELSE LET i == CHOOSE i \in 1 .. Len(key) :
                    key[i] = "." /\ \A j \in 1 .. (i - 1) : key[j] # "."
         IN << SubSeq(key, 1, i - 1) >> \o Split(SubSeq(key, i + 1, Len(key)))

\* config.py:84-93  the loop of Config.get over the components
RECURSIVE GetFrom(_, _, _)
GetFrom(value, keys, default) ==
    IF keys = << >> THEN value
    ELSE IF value.t # "dict" THEN default
    ELSE LET v == IF Head(keys) \in DOMAIN value.d
                  THEN value.d[Head(keys)]
                  ELSE PyNone
         IN IF v.t = "None" THEN default
            ELSE GetFrom(v, Tail(keys), default)

\* variant: the default argument is ignored
Config_get_m(d, key, default) == GetFrom(PyDict(d), Split(key), PyNone)

\* Config.get(key, default)
Config_get(d, key, default) == GetFrom(PyDict(d), Split(key), default)

\* config.py:107-113  the navigation of Config.set: a component that is
\* absent or not a dict is replaced by {}, the last one receives the value
RECURSIVE SetIn(_, _, _)
SetIn(d, keys, value) ==
    IF Len(keys) = 1 THEN Put(d, keys[1], value)
    ELSE LET k == Head(keys)
             sub == IF k \notin DOMAIN d \/ d[k].t # "dict"
                    THEN EmptyData
                    ELSE d[k].d
         IN Put(d, k, PyDict(SetIn(sub, Tail(keys), value)))

\* Config.set(key, value): self.data afterwards
Config_set(d, key, value) == SetIn(d, Split(key), value)

\* json.dump of a value of the data dict
RECURSIVE JsonOfValue(_)
JsonOfValue(v) ==
    IF v.t = "dict"
    THEN [j |-> "object", s |-> "", n |-> 0,
          o |-> [k \in DOMAIN v.d |-> JsonOfValue(v.d[k])]]
    ELSE JsonOfPy(v)

\* the Python value json.load builds
RECURSIVE ValueOfJson(_)
ValueOfJson(l) ==
    IF l.j = "object"
    THEN PyDict([k \in DOMAIN l.o |-> ValueOfJson(l.o[k])])
    ELSE PyOfJson(l)

\* Config._load_config
load_config(file) ==
    IF file.kind = "json" THEN ValueOfJson(file.text).d ELSE EmptyData

\* Config.save_config: the file afterwards (an exception is caught and printed)
save_config(d, file, io) ==
    CASE io = "ok" -> JsonFile(JsonOfValue(PyDict(d)))
      [] io = "open_fails" -> file
      [] OTHER -> CorruptFile

----------------------------------------------------------------------------
(* cli.db_connect: resolution of the AWS profile *)

\* a "" string stands for an unset / None string
Or(a, b) == IF a # "" THEN a ELSE b

PlainArg == [key |-> "verbose", val |-> "", eq |-> FALSE]
InlineArg(k, v) == [key |-> k, val |-> v, eq |-> TRUE]

\* ctx.args the command may receive
ArgLists ==
    { << >>, << PlainArg >>,
      << InlineArg("AWS_PROFILE", "p-inl") >>,
      << InlineArg("AWS_DEFAULT_PROFILE", "p-inl-def") >>,
      << InlineArg("AWS_DEFAULT_PROFILE", "p-inl-def"), PlainArg,
         InlineArg("AWS_PROFILE", "p-inl") >> }

\* os.environ restricted to the two profile variables
Environments ==
    [AWS_PROFILE : {"", "p-env"}, AWS_DEFAULT_PROFILE : {"", "p-def"}]

\* the dict comprehension of cli.py:145-149, read at one key
RECURSIVE InlineValue(_, _)
InlineValue(args, key) ==
    IF args = << >> THEN ""
    ELSE LET a == args[Len(args)]
         IN IF a.eq /\ a.key = key
               /\ a.key \in {"AWS_PROFILE", "AWS_DEFAULT_PROFILE"}
            THEN a.val
            ELSE InlineValue(SubSeq(args, 1, Len(args) - 1), key)

RECURSIVE InlineHas(_, _)
InlineHas(args, key) ==
    IF args = << >> THEN FALSE
    ELSE LET a == args[Len(args)]
         IN (a.eq /\ a.key = key) \/ InlineHas(SubSeq(args, 1, Len(args) - 1), key)

\* os.environ.update(inline_env_vars)
EnvAfterUpdate(env, args) ==
    [k \in {"AWS_PROFILE", "AWS_DEFAULT_PROFILE"} |->
        IF InlineHas(args, k) THEN InlineValue(args, k) ELSE env[k]]

\* cli.py:143-153: inline_env_vars is bound only when ctx.args is non-empty,
\* and it is read only when --profile is falsy
ResolveProfile(flag, args, env) ==
    IF flag # "" THEN [kind |-> "ok", profile |-> flag]
    ELSE IF args = << >> THEN [kind |-> "NameError", profile |-> ""]
    ELSE LET e == EnvAfterUpdate(env, args)
             r == Or(InlineValue(args, "AWS_PROFILE"),
                     Or(e["AWS_PROFILE"], e["AWS_DEFAULT_PROFILE"]))
         IN IF r = "" THEN [kind |-> "missing", profile |-> ""]
            ELSE [kind |-> "ok", profile |-> r]

NoEnv == [AWS_PROFILE |-> "", AWS_DEFAULT_PROFILE |-> ""]

\* command lines and environments of the invocations explored
Invocations ==
    { [flag |-> "houlak", args |-> << >>, env |-> NoEnv],
      [flag |-> "", args |-> << >>,
       env |-> [AWS_PROFILE |-> "p-env", AWS_DEFAULT_PROFILE |-> ""]],
      [flag |-> "", args |-> << PlainArg >>, env |-> NoEnv],
      [flag |-> "", args |-> << InlineArg("AWS_PROFILE", "houlak") >>,
       env |-> [AWS_PROFILE |-> "p-env", AWS_DEFAULT_PROFILE |-> "p-def"]] }

\* --database
database_name == "hk-postgres-dev"

\* --port values: absent, 0, or a port
RequestedPorts == {NonePort, 0, 5433}

\* Python truthiness of an Optional[int]
PortTruthy(p) == p # NonePort /\ p # 0

\* every combination of --profile, extra arguments and environment
AllInvocations == [flag : {"", "p-flag"}, args : ArgLists, env : Environments]

\* the command lines built from invocations and --port values
CommandLines(invs) ==
    { [flag |-> i.flag, args |-> i.args, env |-> i.env, port |-> p,
       given |-> TRUE] : i \in invs, p \in RequestedPorts }

\* no command line is waiting to be parsed
NoInvocation == [flag |-> "", args |-> << >>, env |-> NoEnv, port |-> NonePort,
                 given |-> FALSE]

----------------------------------------------------------------------------
(* admin.py: the caller's identity, the admin list, the parameter store *)

\* constants.DEFAULT_ADMINS
DEFAULT_ADMINS == {"eperroud", "gfranco"}

\* the Arn of sts.get_caller_identity: its kind, its part after the last
\* "/" (full), and that part up to "@" (name)
MkArn(kind, full, name) == [kind |-> kind, full |-> full, name |-> name]

NoArn == MkArn("none", "", "")

Arns ==
    { MkArn("user", "eperroud", "eperroud"),
      MkArn("user", "EPerroud", "EPerroud"),
      MkArn("user", "gfranco@acct", "gfranco"),
      MkArn("assumed-role", "gfranco@acct", "gfranco"),
      MkArn("assumed-role", "mallory", "mallory"),
      MkArn("other", "", "") }

\* Optional[str]: None, or a user name
NoUser == [none |-> TRUE, name |-> ""]
SomeUser(n) == [none |-> FALSE, name |-> n]

\* outcomes of get_aws_session + sts.get_caller_identity
StsOutcomes == {"ok", "Exception"}

\* admin.get_current_aws_user: the session name of an assumed role is cut
\* at "@"; an exception is caught and None returned
get_current_aws_user(outcome, arn) ==
    IF outcome # "ok" THEN NoUser
    ELSE IF arn.kind = "assumed-role" THEN SomeUser(arn.name)
    ELSE SomeUser(arn.full)

\* the value of the /houlak/cli/admins parameter: absent, not JSON, or a
\* JSON object with or without a "users" list ("users": null included)
AbsentParam == [kind |-> "absent", has |-> FALSE, null |-> FALSE, users |-> {}]
InvalidParam == [kind |-> "invalid", has |-> FALSE, null |-> FALSE, users |-> {}]
JsonNoUsers == [kind |-> "json", has |-> FALSE, null |-> FALSE, users |-> {}]
JsonNullUsers == [kind |-> "json", has |-> TRUE, null |-> TRUE, users |-> {}]
JsonUsers(u) == [kind |-> "json", has |-> TRUE, null |-> FALSE, users |-> u]

AdminParams ==
    { AbsentParam, InvalidParam, JsonNoUsers, JsonNullUsers,
      JsonUsers(DEFAULT_ADMINS), JsonUsers({"Mallory"}), JsonUsers({}) }

\* outcomes of get_aws_session + ssm.get_parameter, besides ParameterNotFound
AdminLookupOutcomes == {"ok", "AccessDeniedException", "NoCredentials"}

\* outcomes of ssm.put_parameter
PutOutcomes == {"ok", "ClientError"}

\* an Optional[List[str]] returned as the admin list
SomeList(u) == [none |-> FALSE, users |-> u]
NoneList == [none |-> TRUE, users |-> {}]

\* variant: the stored list is not read, the default admins always apply
get_admin_users_m(outcome, param) == SomeList(DEFAULT_ADMINS)

\* admin.get_admin_users: the stored "users", DEFAULT_ADMINS when the
\* parameter is absent, unreadable, not JSON or has no "users"
get_admin_users(outcome, param) ==
    IF outcome # "ok" \/ param.kind # "json" \/ ~param.has
    THEN SomeList(DEFAULT_ADMINS)
    ELSE IF param.null THEN NoneList
    ELSE SomeList(param.users)

\* admin.get_admin_users, lines 76-83, and initialize_admin_users: an absent
\* parameter is created with the default admins when the put succeeds
AdminsAfterLookup(outcome, param, init) ==
    IF outcome = "ok" /\ param.kind = "absent" /\ init = "ok"
    THEN JsonUsers(DEFAULT_ADMINS)
    ELSE param

\* admin.py:147  username.lower() in [admin.lower() for admin in admins]
is_admin_user(username, admins) ==
    Lower(username) \in { Lower(a) : a \in admins }

\* names of database records
DbNames == {"hk-postgres-dev", "hk-mariadb-qa"}

\* the parameter store: the admin-list parameter and, per database name,
\* the record stored ("absent" when there is none)
MkStore(admins, dbs) == [admins |-> admins, dbs |-> dbs]

EmptyStore == MkStore(AbsentParam, [n \in DbNames |-> "absent"])

\* what the administrator answers to prompt_for_database_config
PromptAnswers ==
    { [name |-> "hk-postgres-dev", record |-> "postgres-5432", valid |-> TRUE],
      [name |-> "hk-mariadb-qa", record |-> "mariadb-3306", valid |-> TRUE],
      [name |-> "hk-postgres-dev", record |-> "", valid |-> FALSE] }

----------------------------------------------------------------------------
(* Diagnostics *)

\* substrings the diagnostics look for in the captured stderr
StderrMarkers == {"255", "TargetNotConnected", "AccessDenied"}

\* captured stderr, as the set of markers it contains
StderrTexts == { {}, {"255"}, {"TargetNotConnected"}, {"AccessDenied"},
                 {"TargetNotConnected", "AccessDenied"} }

\* variant: the stderr substrings are tested before the exit code
EarlyDiagnosis_m(error_code, stderr) ==
    IF "TargetNotConnected" \in stderr THEN "DiagTarget"
    ELSE IF "AccessDenied" \in stderr THEN "DiagAccess"
    ELSE IF error_code = 255 \/ "255" \in stderr THEN "DiagSession"
    ELSE "DiagGeneric"

\* db_connect.py:171-186  early-failure classification
EarlyDiagnosis(error_code, stderr) ==
    IF error_code = 255 \/ "255" \in stderr THEN "DiagSession"
    ELSE IF "TargetNotConnected" \in stderr THEN "DiagTarget"
    ELSE IF "AccessDenied" \in stderr THEN "DiagAccess"
    ELSE "DiagGeneric"

\* db_connect.py:276-289  natural-exit classification
NaturalDiagnosis(return_code) ==
    IF return_code = 255 THEN "Nat255" ELSE "NatOther"

\* exit statuses the main flow may read from the tunnel subprocess
ChildExitCodes == {0, 1, 255}

----------------------------------------------------------------------------
(* State *)

VARIABLES
    pc,              \* position of the main control flow
    profile,         \* resolved AWS profile
    port,            \* local port (requested, then chosen)
    db_config,       \* value returned by get_database_config
    child,           \* the tunnel subprocess and its Popen object
    waitLock,        \* Popen._waitpid_lock is held by the blocked process.wait()
    installed,       \* signals whose handler is signal_handler
    shutdown_event,  \* threading.Event of the handler
    hstack,          \* running signal_handler frames, innermost last
    sigCount,        \* signals delivered so far
    exitKind,        \* how the process ended, "none" while it runs
    exitCode,        \* process exit status
    msgs,            \* messages printed so far
    cache,           \* Config.cache
    cacheFile,       \* the cache file on disk
    data,            \* Config.data
    dataFile,        \* the config file on disk
    store,           \* the parameter store: admin list and database records
    pipe,            \* captured output of the subprocess: still to write, buffered unread
    awsConfig,       \* the sections of ~/.aws/config, in file order
    ctr,             \* calls made to the collaborators
    hist             \* observations kept for the properties

vars == << pc, profile, port, db_config, child, waitLock, installed,
           shutdown_event, hstack, sigCount, exitKind, exitCode, msgs,
           cache, cacheFile, data, dataFile, store, pipe, awsConfig, ctr,
           hist >>

NoChild == [st |-> "none", code |-> 0, term |-> FALSE, kill |-> FALSE]

\* stdout=PIPE: the output the subprocess has still to write before it ends,
\* and the output sitting unread in the pipe
NoPipe == [pending |-> 0, buffered |-> 0]

NoLaunch == [instance_id |-> "", remote_host |-> "", remote_port |-> 0,
             local_port |-> 0, profile |-> "", region |-> ""]

ZeroCtr == [connect |-> 0, login |-> 0, lookup |-> 0, probe |-> 0,
            launch |-> 0, save |-> 0, terminate |-> 0, kill |-> 0, set |-> 0,
            prompt |-> 0, put |-> 0, write |-> 0]

NoSaved == [database |-> "", engine |-> PyNone, env |-> PyNone, port |-> 0,
            profile |-> ""]

\* the last call of a function made on its own, with arguments and result
NoCall == [fn |-> "none", identity |-> "none", returncode |-> 0,
           raised |-> "none", value |-> FALSE,
           start_port |-> 0, max_attempts |-> 0, defaulted |-> FALSE,
           used |-> {}, result |-> NonePort]

\* the last Config.set call, key and value, and self.data as first loaded
NoSet == [key |-> << >>, value |-> PyNone, before |-> EmptyData]

\* the last Config.get call, key, default and the value returned
NoGet == [called |-> FALSE, key |-> << >>, default |-> PyNone,
          result |-> PyNone]

\* the last write_aws_profile call: its profile name and values, whether
\* the overwrite was asked and the answer, the value returned, and the file
\* as it was before the call
NoWrite == [name |-> "", values |-> "", asked |-> FALSE, answer |-> FALSE,
            returned |-> FALSE, before |-> << >>]

\* what admin-db-add observed: the identity call, the ARN, the admin-list
\* lookup, and the parameter store as it was at start
NoAdmin == [identity |-> "none", arn |-> NoArn, lookup |-> "none",
            store0 |-> EmptyStore]

InitHist(file) ==
    [file0 |-> file, lookup |-> "none", used |-> {}, launch |-> NoLaunch,
     io |-> "none", saved |-> NoSaved, sigAt |-> "none", lockAtSig |-> FALSE,
     diag |-> "none", stderr |-> {}, confirm |-> "none",
     session |-> "none", answer |-> "none", login |-> "none",
     call |-> NoCall, raised |-> "none", inv |-> NoInvocation,
     set |-> NoSet, get |-> NoGet, admin |-> NoAdmin, write |-> NoWrite]

\* the state before anything ran, Config() having loaded one of the files
\* and the process having been started with one of the command lines
InitWith(files, lines) ==
    /\ profile = ""
    /\ port = NonePort
    /\ db_config = NoConfig
    /\ child = NoChild
    /\ waitLock = FALSE
    /\ installed = {}
    /\ shutdown_event = FALSE
    /\ hstack = << >>
    /\ sigCount = 0
    /\ exitKind = "none"
    /\ exitCode = 0
    /\ msgs = {}
    /\ ctr = ZeroCtr
    /\ cacheFile \in files
    /\ dataFile = AbsentFile
    /\ data = load_config(dataFile)
    /\ cache = load_cache(cacheFile)
    /\ store = EmptyStore
    /\ pipe = NoPipe
    /\ awsConfig = << >>
    /\ \E l \in lines : hist = [InitHist(cacheFile) EXCEPT !.inv = l]

InitFrom(files) == InitWith(files, {NoInvocation})

\* config = Config() at import, then the command is dispatched
Init ==
    /\ pc = "cli"
    /\ InitWith(InitialFiles, CommandLines(Invocations))

exited == exitKind # "none"

----------------------------------------------------------------------------
(* Helpers of the actions *)

\* sys.exit / os._exit / an uncaught exception: the process is gone
ExitWith(kind, code, m) ==
    /\ pc' = "exited"
    /\ exitKind' = kind
    /\ exitCode' = code
    /\ msgs' = msgs \cup m
    /\ hstack' = << >>

\* the main flow moves on and prints m
Goto(next, m) ==
    /\ pc' = next
    /\ msgs' = msgs \cup m
    /\ UNCHANGED << exitKind, exitCode, hstack >>

Bump(field) == [ctr EXCEPT ![field] = @ + 1]

\* outcomes of "aws sts get-caller-identity" under subprocess.run(check, timeout)
IdentityOutcomes == {"ok", "nonzero", "no_credentials", "timeout",
                     "no_executable"}

\* subprocess.run(..., check=True, timeout=10): the exception raised ("none"
\* when it returns) and the exit status of the command (-1 when there is none)
IdentityRun(outcome) ==
    CASE outcome = "ok" -> [raised |-> "none", returncode |-> 0]
      [] outcome = "nonzero" ->
           [raised |-> "CalledProcessError", returncode |-> 1]
      [] outcome = "no_credentials" ->
           [raised |-> "CalledProcessError", returncode |-> 255]
      [] outcome = "timeout" -> [raised |-> "TimeoutExpired", returncode |-> -1]
      [] OTHER -> [raised |-> "FileNotFoundError", returncode |-> -1]

\* variant: only the non-zero exit status is caught
ValidateCatches_m == {"CalledProcessError"}

\* validators.py:113  except Exception: the classes it catches
ValidateCatches ==
    {"CalledProcessError", "TimeoutExpired", "FileNotFoundError"}

\* validators.validate_aws_session: the value returned, or the exception
\* that leaves the function
validate_aws_session_call(outcome) ==
    LET r == IdentityRun(outcome)
    IN IF r.raised = "none"
       THEN [raised |-> "none", value |-> r.returncode = 0]
       ELSE IF r.raised \in ValidateCatches
       THEN [raised |-> "none", value |-> FALSE]
       ELSE [raised |-> r.raised, value |-> FALSE]

\* validators.validate_aws_session as connect_to_database reads it
validate_aws_session(outcome) ==
    LET c == validate_aws_session_call(outcome)
    IN c.raised = "none" /\ c.value

\* outcomes of "aws sso login"
LoginOutcomes == {"ok", "CalledProcessError", "Exception"}

\* variant: the result of the login command is not looked at
execute_sso_login_m(outcome) == TRUE

\* aws_helper.execute_sso_login
execute_sso_login(outcome) == outcome = "ok"

\* what ValidateSession observed: validity, the answer to "Run SSO login?",
\* the outcome of the login flow
SessionSeen(valid, answer, login) ==
    [hist EXCEPT !.session = IF valid THEN "valid" ELSE "invalid",
                 !.answer = IF valid THEN "none"
                            ELSE IF answer THEN "yes" ELSE "no",
                 !.login = IF ~valid /\ answer THEN login ELSE "none"]

----------------------------------------------------------------------------
(* cli.db_connect, cli.py:142-178 *)

\* argv and the environment are read here and nowhere else
CliDbConnect ==
    /\ pc = "cli"
    /\ hist.inv.given
    /\ LET inv == hist.inv
           r == ResolveProfile(inv.flag, inv.args, inv.env)
       IN IF r.kind = "NameError"
          THEN /\ ExitWith("crash", 1, {"NameError"})
               /\ UNCHANGED << profile, port, ctr >>
          ELSE IF r.kind = "missing"
          THEN /\ ExitWith("hard", 1, {"ProfileMissing"})
               /\ UNCHANGED << profile, port, ctr >>
          ELSE /\ Goto("validate", {})
               /\ profile' = r.profile
               /\ port' = inv.port
               /\ ctr' = Bump("connect")
    /\ hist' = [hist EXCEPT !.inv = NoInvocation]
    /\ UNCHANGED << db_config, child, waitLock, installed, shutdown_event,
                    sigCount, cache, cacheFile, data, dataFile, store, pipe, awsConfig >>

\* variant: declining the login returns instead of exiting with status 1
ValidateSession_m ==
    /\ pc = "validate"
    /\ \E identity \in IdentityOutcomes, answer \in BOOLEAN,
          login \in LoginOutcomes :
         /\ hist' = SessionSeen(validate_aws_session(identity), answer, login)
         /\ IF validate_aws_session(identity)
            THEN /\ Goto("lookup", {})
                 /\ ctr' = ctr
            ELSE IF answer
            THEN /\ ctr' = Bump("login")
                 /\ IF execute_sso_login(login)
                    THEN Goto("lookup", {"SessionInvalid"})
                    ELSE ExitWith("hard", 1, {"SessionInvalid", "SsoFailed"})
            ELSE /\ ctr' = ctr
                 /\ ExitWith("hard", 0, {"SessionInvalid", "NoSession"})
    /\ UNCHANGED << profile, port, db_config, child, waitLock, installed,
                    shutdown_event, sigCount, cache, cacheFile, data, dataFile, store, pipe, awsConfig >>

(* connect_to_database, db_connect.py:66-75 *)
ValidateSession ==
    /\ pc = "validate"
    /\ \E identity \in IdentityOutcomes, answer \in BOOLEAN,
          login \in LoginOutcomes :
         /\ hist' = SessionSeen(validate_aws_session(identity), answer, login)
         /\ IF validate_aws_session(identity)
            THEN /\ Goto("lookup", {})
                 /\ ctr' = ctr
            ELSE IF answer
            THEN /\ ctr' = Bump("login")
                 /\ IF execute_sso_login(login)
                    THEN Goto("lookup", {"SessionInvalid"})
                    ELSE ExitWith("hard", 1, {"SessionInvalid", "SsoFailed"})
            ELSE /\ ctr' = ctr
                 /\ ExitWith("hard", 1, {"SessionInvalid", "NoSession"})
    /\ UNCHANGED << profile, port, db_config, child, waitLock, installed,
                    shutdown_event, sigCount, cache, cacheFile, data, dataFile, store, pipe, awsConfig >>

\* variant: a record lacking a required field is reported and used anyway
ResolveConfig_m ==
    /\ pc = "lookup"
    /\ \E outcome \in LookupOutcomes, rec \in StoreRecords :
         /\ outcome # "ok" => rec = EmptyDict
         /\ LET c == get_database_config(outcome, rec)
                m == get_database_config_msg(outcome)
            IN /\ db_config' = c
               /\ hist' = [hist EXCEPT !.lookup = outcome]
               /\ IF ~ConfigTruthy(c)
                  THEN ExitWith("hard", 1, m \cup {"NotFound", "ListTip"})
                  ELSE IF RequiredFieldsMissing(c.d)
                  THEN Goto("port", m \cup {"Malformed"})
                  ELSE Goto("port", m)
    /\ ctr' = Bump("lookup")
    /\ UNCHANGED << profile, port, child, waitLock, installed, shutdown_event,
                    sigCount, cache, cacheFile, data, dataFile, store, pipe, awsConfig >>

(* connect_to_database, db_connect.py:77-95 *)
ResolveConfig ==
    /\ pc = "lookup"
    /\ \E outcome \in LookupOutcomes, rec \in StoreRecords :
         /\ outcome # "ok" => rec = EmptyDict
         /\ LET c == get_database_config(outcome, rec)
                m == get_database_config_msg(outcome)
            IN /\ db_config' = c
               /\ hist' = [hist EXCEPT !.lookup = outcome]
               /\ IF ~ConfigTruthy(c)
                  THEN ExitWith("hard", 1, m \cup {"NotFound", "ListTip"})
                  ELSE IF RequiredFieldsMissing(c.d)
                  THEN ExitWith("hard", 1, m \cup {"Malformed"})
                  ELSE Goto("port", m)
    /\ ctr' = Bump("lookup")
    /\ UNCHANGED << profile, port, child, waitLock, installed, shutdown_event,
                    sigCount, cache, cacheFile, data, dataFile, store, pipe, awsConfig >>

\* db_config.get("engine", "postgres")
EngineOf(c) == DictGetDefault(c.d, "engine", PyStr("postgres"))
\* db_config.get("environment", "unknown")
EnvironmentOf(c) == DictGetDefault(c.d, "environment", PyStr("unknown"))
\* db_config.get("region", "us-east-1")
RegionOf(c) == DictGetDefault(c.d, "region", PyStr("us-east-1"))

\* db_connect.py:98-101: the port the probing starts from
StartPort(p, c) == IF ~PortTruthy(p) THEN DefaultPortFor(EngineOf(c).s) ELSE p

(* connect_to_database, db_connect.py:97-129: the first probe, then the   *)
(* scan, which probes again from the same port, then the confirmation;     *)
(* hist.used is the set of busy ports at the most recent probe             *)
DeterminePort ==
    /\ pc = "port"
    /\ LET start == StartPort(port, db_config)
       IN \E used \in UsedPortSets(start), answer \in BOOLEAN :
            \E later \in LaterPortSets(start, used) :
              IF ~is_port_in_use(start, used)
              THEN /\ port' = start
                   /\ hist' = [hist EXCEPT !.used = used]
                   /\ Goto("launch", {})
              ELSE LET available_port ==
                           find_available_port(start, MaxAttempts, later)
                   IN IF PortTruthy(available_port)
                      THEN IF answer
                           THEN /\ port' = available_port
                                /\ hist' = [hist EXCEPT !.used = later,
                                                        !.confirm = "yes"]
                                /\ Goto("launch", {"PortInUse"})
                           ELSE /\ port' = start
                                /\ hist' = [hist EXCEPT !.used = later,
                                                        !.confirm = "no"]
                                /\ ExitWith("hard", 1,
                                            {"PortInUse", "Cancelled"})
                      ELSE /\ port' = start
                           /\ hist' = [hist EXCEPT !.used = later]
                           /\ ExitWith("hard", 1, {"PortInUse", "NoPorts"})
    /\ ctr' = Bump("probe")
    /\ UNCHANGED << profile, db_config, child, waitLock, installed,
                    shutdown_event, sigCount, cache, cacheFile, data, dataFile, store, pipe, awsConfig >>

\* variant: the profile of the stored last connection is reused
LaunchArgs_m ==
    [instance_id |-> DictGet(db_config.d, "bastionInstanceId").s,
     remote_host |-> DictGet(db_config.d, "rdsEndpoint").s,
     remote_port |-> DictGet(db_config.d, "rdsPort").n,
     local_port |-> port,
     profile |-> IF get_last_connection(cache) = PyNone THEN profile
                 ELSE get_last_connection(cache).profile.s,
     region |-> RegionOf(db_config).s]

\* the arguments start_ssm_port_forwarding is called with, db_connect.py:138-145
LaunchArgs ==
    [instance_id |-> DictGet(db_config.d, "bastionInstanceId").s,
     remote_host |-> DictGet(db_config.d, "rdsEndpoint").s,
     remote_port |-> DictGet(db_config.d, "rdsPort").n,
     local_port |-> port,
     profile |-> profile,
     region |-> RegionOf(db_config).s]

(* connect_to_database, db_connect.py:137-145 and 299-301;                 *)
(* aws_helper.start_ssm_port_forwarding: Popen succeeds or raises          *)
Launch ==
    /\ pc = "launch"
    /\ \E popen_ok \in BOOLEAN :
         IF popen_ok
         THEN /\ child' = [NoChild EXCEPT !.st = "alive"]
              /\ Goto("grace", {"Starting"})
         ELSE /\ child' = child
              /\ ExitWith("hard", 1, {"Starting", "ErrorStarting"})
    /\ ctr' = Bump("launch")
    /\ hist' = [hist EXCEPT !.launch = LaunchArgs]
    /\ UNCHANGED << profile, port, db_config, waitLock, installed,
                    shutdown_event, sigCount, cache, cacheFile, data, dataFile, store, pipe, awsConfig >>

----------------------------------------------------------------------------
(* The tunnel subprocess and its Popen object *)

\* the subprocess ends, on its own or by a signal it was sent; its exit
\* status reaches the program when a waitpid of the main flow returns it
ChildExits ==
    /\ ~exited
    /\ child.st = "alive"
    /\ pipe.pending = 0 \/ child.term \/ child.kill
    /\ child' = [NoChild EXCEPT !.st = "zombie"]
    /\ UNCHANGED << pc, profile, port, db_config, waitLock, installed,
                    shutdown_event, hstack, sigCount, exitKind, exitCode,
                    msgs, cache, cacheFile, data, dataFile, ctr, hist, store, pipe, awsConfig >>

\* variant: poll does not call waitpid
Polled_m(c, lock) == c

\* Popen.poll(): waitpid(WNOHANG) sets returncode, unless another frame is
\* inside waitpid (the lock is taken without blocking; on failure poll
\* returns None)
Polled(c, lock) ==
    IF c.st = "zombie" /\ ~lock THEN [c EXCEPT !.st = "reaped"] ELSE c

\* Popen.returncode is not None
ReturncodeKnown(c) == c.st = "reaped"

\* Popen.send_signal(sig): poll first, then os.kill unless the child is
\* known dead; a signal sent to a child that already ended changes nothing
Signalled(c, lock, field) ==
    LET q == Polled(c, lock)
    IN IF ReturncodeKnown(q) \/ q.st # "alive" THEN q
       ELSE IF field = "term" THEN [q EXCEPT !.term = TRUE]
       ELSE [q EXCEPT !.kill = TRUE]

\* variant: the connection is recorded before the liveness poll
PollAfterGrace_m ==
    /\ pc = "grace"
    /\ cache' = save_last_connection(cache, database_name, EngineOf(db_config),
                                     EnvironmentOf(db_config), port, profile)
    /\ cacheFile' = save_cache(cache', cacheFile, "ok")
    /\ IF ReturncodeKnown(Polled(child, waitLock))
       THEN \E error_code \in ChildExitCodes, stderr \in StderrTexts :
              LET d == EarlyDiagnosis(error_code, stderr)
              IN /\ child' = [child EXCEPT !.st = "reaped", !.code = error_code]
                 /\ ExitWith("early", 1, {"StartFailed", d, "Troubleshooting"})
                 /\ hist' = [hist EXCEPT !.diag = d, !.stderr = stderr]
       ELSE /\ child' = child
            /\ Goto("save", {})
            /\ hist' = hist
    /\ UNCHANGED << profile, port, db_config, waitLock, installed,
                    shutdown_event, sigCount, ctr, data, dataFile, store, pipe, awsConfig >>

(* connect_to_database, db_connect.py:149-197: grace period, single poll,  *)
(* early-failure diagnostics                                               *)
PollAfterGrace ==
    /\ pc = "grace"
    /\ IF ReturncodeKnown(Polled(child, waitLock))
       THEN \E error_code \in ChildExitCodes, stderr \in StderrTexts :
              LET d == EarlyDiagnosis(error_code, stderr)
              IN /\ child' = [child EXCEPT !.st = "reaped", !.code = error_code]
                 /\ ExitWith("early", 1, {"StartFailed", d, "Troubleshooting"})
                 /\ hist' = [hist EXCEPT !.diag = d, !.stderr = stderr]
       ELSE /\ child' = child
            /\ Goto("save", {})
            /\ hist' = hist
    /\ UNCHANGED << profile, port, db_config, waitLock, installed,
                    shutdown_event, sigCount, cache, cacheFile, data, dataFile, ctr, store, pipe, awsConfig >>

(* connect_to_database, db_connect.py:199-215: config.save_last_connection *)
(* and the banner; an exception leaving it is caught at line 299           *)
SaveConnection ==
    /\ pc = "save"
    /\ \E io \in IoOutcomes :
         LET c == save_last_connection(cache, database_name,
                                       EngineOf(db_config),
                                       EnvironmentOf(db_config), port, profile)
         IN /\ cache' = c
            /\ cacheFile' = save_cache(c, cacheFile, io)
            /\ hist' = [hist EXCEPT !.io = io,
                            !.saved = [database |-> database_name,
                                       engine |-> EngineOf(db_config),
                                       env |-> EnvironmentOf(db_config),
                                       port |-> port, profile |-> profile]]
            /\ IF save_cache_raises(io)
               THEN ExitWith("hard", 1, {"ErrorStarting"})
               ELSE Goto("install",
                         {"Connected"} \cup
                         (IF io = "ok" THEN {} ELSE {"ErrorSavingCache"}))
    /\ ctr' = Bump("save")
    /\ UNCHANGED << profile, port, db_config, child, waitLock, installed,
                    shutdown_event, sigCount, data, dataFile, store, pipe, awsConfig >>

(* db_connect.py:218-256: the handler is installed for SIGINT and SIGTERM *)
InstallHandlers ==
    /\ pc = "install"
    /\ installed' = {"INT", "TERM"}
    /\ Goto("wait_enter", {})
    /\ UNCHANGED << profile, port, db_config, child, waitLock, shutdown_event,
                    sigCount, cache, cacheFile, data, dataFile, ctr, hist, store, pipe, awsConfig >>

(* db_connect.py:261: process.wait() takes the waitpid lock and blocks *)
EnterWait ==
    /\ pc = "wait_enter"
    /\ hstack = << >>
    /\ waitLock' = TRUE
    /\ Goto("wait", {})
    /\ UNCHANGED << profile, port, db_config, child, installed, shutdown_event,
                    sigCount, cache, cacheFile, data, dataFile, ctr, hist, store, pipe, awsConfig >>

(* db_connect.py:261: process.wait() returns the exit status *)
WaitReturns ==
    /\ pc = "wait"
    /\ hstack = << >>
    /\ child.st = "zombie"
    /\ \E return_code \in ChildExitCodes :
         child' = [child EXCEPT !.st = "reaped", !.code = return_code]
    /\ waitLock' = FALSE
    /\ Goto("natural", {})
    /\ UNCHANGED << profile, port, db_config, installed, shutdown_event,
                    sigCount, cache, cacheFile, data, dataFile, ctr, hist, store, pipe, awsConfig >>

NewFrame == [pc |-> "check", i |-> 0]

\* variant: after an abnormal end the tunnel is launched again
NaturalFinish_m ==
    /\ pc = "natural"
    /\ hstack = << >>
    /\ LET m == IF child.code # 0
                THEN {"EndedUnexpectedly", NaturalDiagnosis(child.code)}
                ELSE {"EndedNaturally"}
       IN \E print_raises \in BOOLEAN :
            IF print_raises
            THEN /\ pc' = "in_except"
                 /\ hstack' = << NewFrame >>
                 /\ msgs' = msgs \cup {"UnexpectedError"}
                 /\ UNCHANGED << exitKind, exitCode >>
            ELSE IF child.code # 0
            THEN Goto("launch", m)
            ELSE ExitWith("natural", 0, m)
    /\ hist' = [hist EXCEPT !.diag = IF child.code # 0
                                     THEN NaturalDiagnosis(child.code)
                                     ELSE "EndedNaturally"]
    /\ UNCHANGED << profile, port, db_config, child, waitLock, installed,
                    shutdown_event, sigCount, cache, cacheFile, data, dataFile, ctr, store, pipe, awsConfig >>

(* db_connect.py:262-297: the natural end; an exception raised there       *)
(* (line 295) calls signal_handler(None, None) from the main flow          *)
NaturalFinish ==
    /\ pc = "natural"
    /\ hstack = << >>
    /\ LET m == IF child.code # 0
                THEN {"EndedUnexpectedly", NaturalDiagnosis(child.code)}
                ELSE {"EndedNaturally"}
       IN \E print_raises \in BOOLEAN :
            IF print_raises
            THEN /\ pc' = "in_except"
                 /\ hstack' = << NewFrame >>
                 /\ msgs' = msgs \cup {"UnexpectedError"}
                 /\ UNCHANGED << exitKind, exitCode >>
            ELSE ExitWith("natural", 0, m)
    /\ hist' = [hist EXCEPT !.diag = IF child.code # 0
                                     THEN NaturalDiagnosis(child.code)
                                     ELSE "EndedNaturally"]
    /\ UNCHANGED << profile, port, db_config, child, waitLock, installed,
                    shutdown_event, sigCount, cache, cacheFile, data, dataFile, ctr, store, pipe, awsConfig >>

----------------------------------------------------------------------------
(* Signals *)

Signals == {"INT", "TERM"}

\* exit status when no handler is installed: KeyboardInterrupt leaves the
\* command (status 1), SIGTERM kills the process (128 + 15)
DefaultSignalStatus(sig) == IF sig = "INT" THEN 1 ELSE 143

\* a SIGINT or SIGTERM is delivered to the process
Signal ==
    /\ ~exited
    /\ sigCount < MaxSignals
    /\ sigCount' = sigCount + 1
    /\ \E sig \in Signals :
         IF sig \in installed
         THEN /\ hstack' = Append(hstack, NewFrame)
              /\ hist' = IF hist.sigAt = "none"
                         THEN [hist EXCEPT !.sigAt = pc, !.lockAtSig = waitLock]
                         ELSE hist
              /\ UNCHANGED << pc, exitKind, exitCode, msgs >>
         ELSE /\ ExitWith("signal", DefaultSignalStatus(sig), {})
              /\ hist' = hist
    /\ UNCHANGED << profile, port, db_config, child, waitLock, installed,
                    shutdown_event, cache, cacheFile, data, dataFile, ctr, store, pipe, awsConfig >>

----------------------------------------------------------------------------
(* connect_to_database.signal_handler, db_connect.py:220-253.              *)
(* The innermost frame runs; a signal delivered meanwhile nests a frame.   *)

Top == hstack[Len(hstack)]
SetTop(f) == [hstack EXCEPT ![Len(hstack)] = f]
Running(at) == ~exited /\ hstack # << >> /\ Top.pc = at

\* the frame moves to the next statement
Step(next, m) ==
    /\ hstack' = SetTop([Top EXCEPT !.pc = next])
    /\ msgs' = msgs \cup m
    /\ UNCHANGED << pc, exitKind, exitCode >>

\* how terminate() / kill() can end: normally, or raising
CallOutcomes == {"returns", "OSError", "Exception"}

\* variant: every exception is reported as an error
Caught_m(outcome) == {"ErrorStopping"}

\* the except clauses of lines 247-251
Caught(outcome) ==
    IF outcome = "OSError" THEN {"Stopped"} ELSE {"ErrorStopping"}

\* variant: the handler does not look at the flag
AlreadyShuttingDown_m == FALSE

\* db_connect.py:221  if shutdown_event.is_set()
AlreadyShuttingDown == shutdown_event

(* lines 221-224: a set flag forces os._exit(1) *)
HandlerCheck ==
    /\ Running("check")
    /\ IF AlreadyShuttingDown
       THEN ExitWith("forced", 1, {"ForceExit"})
       ELSE Step("set", {})
    /\ UNCHANGED << profile, port, db_config, child, waitLock, installed,
                    shutdown_event, sigCount, cache, cacheFile, data, dataFile, ctr, hist, store, pipe, awsConfig >>

(* lines 226-227: shutdown_event.set() *)
HandlerSet ==
    /\ Running("set")
    /\ shutdown_event' = TRUE
    /\ Step("terminate", {"Stopping"})
    /\ UNCHANGED << profile, port, db_config, child, waitLock, installed,
                    sigCount, cache, cacheFile, data, dataFile, ctr, hist, store, pipe, awsConfig >>

(* line 231: process.terminate() *)
HandlerTerminate ==
    /\ Running("terminate")
    /\ ctr' = Bump("terminate")
    /\ \E outcome \in CallOutcomes :
         IF outcome = "returns"
         THEN /\ child' = Signalled(child, waitLock, "term")
              /\ Step("poll", {})
              /\ hist' = hist
         ELSE /\ ~ReturncodeKnown(Polled(child, waitLock))
              /\ child' = Polled(child, waitLock)
              /\ Step("finally", Caught(outcome))
              /\ hist' = [hist EXCEPT !.raised = outcome]
    /\ UNCHANGED << profile, port, db_config, waitLock, installed,
                    shutdown_event, sigCount, cache, cacheFile, data, dataFile, store, pipe, awsConfig >>

(* lines 234-237: one iteration of the poll loop, poll then sleep(0.1) *)
HandlerPoll ==
    /\ Running("poll")
    /\ LET q == Polled(child, waitLock)
       IN /\ child' = q
          /\ IF ReturncodeKnown(q) \/ Top.i + 1 >= PollAttempts
             THEN Step("finalpoll", {})
             ELSE /\ hstack' = SetTop([Top EXCEPT !.i = @ + 1])
                  /\ UNCHANGED << pc, exitKind, exitCode, msgs >>
    /\ UNCHANGED << profile, port, db_config, waitLock, installed,
                    shutdown_event, sigCount, cache, cacheFile, data, dataFile, ctr, hist, store, pipe, awsConfig >>

(* lines 240-241 and 245: the poll after the loop *)
HandlerFinalPoll ==
    /\ Running("finalpoll")
    /\ LET q == Polled(child, waitLock)
       IN /\ child' = q
          /\ IF ReturncodeKnown(q)
             THEN Step("finally", {"Stopped"})
             ELSE Step("kill", {"ForceTerminating"})
    /\ UNCHANGED << profile, port, db_config, waitLock, installed,
                    shutdown_event, sigCount, cache, cacheFile, data, dataFile, ctr, hist, store, pipe, awsConfig >>

(* line 242: process.kill() *)
HandlerKill ==
    /\ Running("kill")
    /\ ctr' = Bump("kill")
    /\ \E outcome \in CallOutcomes :
         IF outcome = "returns"
         THEN /\ child' = Signalled(child, waitLock, "kill")
              /\ Step("waitk", {})
              /\ hist' = hist
         ELSE /\ ~ReturncodeKnown(Polled(child, waitLock))
              /\ child' = Polled(child, waitLock)
              /\ Step("finally", Caught(outcome))
              /\ hist' = [hist EXCEPT !.raised = outcome]
    /\ UNCHANGED << profile, port, db_config, waitLock, installed,
                    shutdown_event, sigCount, cache, cacheFile, data, dataFile, store, pipe, awsConfig >>

(* lines 243-249: process.wait(timeout=1) returns the status, or raises    *)
(* TimeoutExpired, which is caught and reported as stopped                 *)
HandlerWaitKilled ==
    /\ Running("waitk")
    /\ \/ /\ ~waitLock
          /\ child.st \in {"zombie", "reaped"}
          /\ child' = [child EXCEPT !.st = "reaped"]
          /\ hist' = hist
       \/ /\ waitLock \/ child.st = "alive"
          /\ child' = child
          /\ hist' = [hist EXCEPT !.raised = "TimeoutExpired"]
    /\ Step("finally", {"Stopped"})
    /\ UNCHANGED << profile, port, db_config, waitLock, installed,
                    shutdown_event, sigCount, cache, cacheFile, data, dataFile, ctr, store, pipe, awsConfig >>

\* variant: the finally clause exits with the status of the forced exit (db_connect.py:224)
HandlerExitStatus_m == 1

\* db_connect.py:253  the status passed to sys.exit in the finally clause
HandlerExitStatus == 0

(* lines 252-253: finally: sys.exit(0); SystemExit unwinds every frame *)
HandlerFinally ==
    /\ Running("finally")
    /\ ExitWith("graceful", HandlerExitStatus, {})
    /\ UNCHANGED << profile, port, db_config, child, waitLock, installed,
                    shutdown_event, sigCount, cache, cacheFile, data, dataFile, ctr, hist, store, pipe, awsConfig >>

HandlerStep ==
    \/ HandlerCheck
    \/ HandlerSet
    \/ HandlerTerminate
    \/ HandlerPoll
    \/ HandlerFinalPoll
    \/ HandlerKill
    \/ HandlerWaitKilled
    \/ HandlerFinally

----------------------------------------------------------------------------
(* One invocation of db-connect *)

Next ==
    \/ CliDbConnect
    \/ ValidateSession
    \/ ResolveConfig
    \/ DeterminePort
    \/ Launch
    \/ ChildExits
    \/ PollAfterGrace
    \/ SaveConnection
    \/ InstallHandlers
    \/ EnterWait
    \/ WaitReturns
    \/ NaturalFinish
    \/ Signal
    \/ HandlerCheck
    \/ HandlerSet
    \/ HandlerTerminate
    \/ HandlerPoll
    \/ HandlerFinalPoll
    \/ HandlerKill
    \/ HandlerWaitKilled
    \/ HandlerFinally

Spec == Init /\ [][Next]_vars

\* the interpreter keeps running the handler: its statements are not starved
FairSpec == Spec /\ WF_vars(HandlerStep)

\* the states of the supervisor
Phase ==
    IF exited
    THEN CASE exitKind = "graceful" -> "Stopped"
           [] exitKind = "forced" -> "Killed"
           [] exitKind = "early" -> "Failed"
           [] exitKind = "natural" -> "Ended"
           [] OTHER -> "HardStop"
    ELSE IF hstack # << >> THEN "Stopping"
    ELSE IF pc = "grace" THEN "Starting"
    ELSE IF pc \in {"save", "install", "wait_enter", "wait",
                    "natural"} THEN "Running"
    ELSE "Idle"

TypeOK ==
    /\ pc \in {"cli", "validate", "lookup", "port", "launch", "grace", "save",
               "install", "wait_enter", "wait", "natural",
               "in_except", "exited", "config", "reloaded", "functions",
               "data", "admin", "admin_add", "wizard"}
    /\ child.st \in {"none", "alive", "zombie", "reaped"}
    /\ installed \subseteq Signals
    /\ sigCount \in 0 .. MaxSignals
    /\ Len(hstack) <= MaxSignals + 1

----------------------------------------------------------------------------
(* The Config object on its own: saves, and a later process that loads the *)
(* cache file again                                                        *)

\* cache files a Config object may be constructed from
ConfigFiles ==
    { AbsentFile, CorruptFile, OldFile,
      JsonFile(json_dump([EmptyCache EXCEPT !["test_key"] = PyStr("v")])) }

InitConfig ==
    /\ pc = "config"
    /\ InitFrom(ConfigFiles)

\* arguments of the save_last_connection calls explored
SaveArgs ==
    { [database |-> "hk-postgres-dev", engine |-> PyStr("postgres"),
       env |-> PyStr("dev"), port |-> 54320, profile |-> "houlak"],
      [database |-> "hk-mariadb-dev", engine |-> PyStr("MariaDB"),
       env |-> PyStr("unknown"), port |-> 33061, profile |-> "p-env"],
      [database |-> "hk-postgres-dev", engine |-> PyStr("postgres"),
       env |-> PyStr("unknown"), port |-> 54321, profile |-> "p-env"] }

(* Config.save_last_connection, config.py:129-147 *)
ConfigSave ==
    /\ pc \in {"config", "reloaded"}
    /\ ctr.save < MaxSaves
    /\ \E a \in SaveArgs, io \in IoOutcomes :
         LET c == save_last_connection(cache, a.database, a.engine, a.env,
                                       a.port, a.profile)
         IN /\ cache' = c
            /\ cacheFile' = save_cache(c, cacheFile, io)
            /\ hist' = [hist EXCEPT !.io = io, !.saved = a]
            /\ msgs' = IF io = "ok" THEN msgs ELSE msgs \cup {"ErrorSavingCache"}
    /\ pc' = "config"
    /\ ctr' = Bump("save")
    /\ UNCHANGED << profile, port, db_config, child, waitLock, installed,
                    shutdown_event, hstack, sigCount, exitKind, exitCode, data, dataFile, store, pipe, awsConfig >>

(* Config.__init__ of a later process, config.py:17-28 and 42-52 *)
ConfigReload ==
    /\ pc = "config"
    /\ cache' = load_cache(cacheFile)
    /\ pc' = "reloaded"
    /\ UNCHANGED << profile, port, db_config, child, waitLock, installed,
                    shutdown_event, hstack, sigCount, exitKind, exitCode,
                    msgs, cacheFile, data, dataFile, ctr, hist, store, pipe, awsConfig >>

NextConfig ==
    \/ ConfigSave
    \/ ConfigReload

SpecConfig == InitConfig /\ [][NextConfig]_vars

\* the dict save_last_connection stores for given arguments
ConnectionOf(a) ==
    [database |-> PyStr(a.database), engine |-> a.engine,
     environment |-> a.env, port |-> PyInt(a.port),
     profile |-> PyStr(a.profile)]

----------------------------------------------------------------------------
(* cli.db_connect over every combination of profile sources *)

InitCli ==
    /\ pc = "cli"
    /\ InitWith({AbsentFile}, CommandLines(AllInvocations))

NextCli == CliDbConnect

SpecCli == InitCli /\ [][NextCli]_vars

----------------------------------------------------------------------------
(* Config.set and Config.get on the data dict *)

\* the key strings explored: "a", "b", "a.b", "a.b.a", "a." and ""
KeyStrings ==
    { << "a" >>, << "b" >>, << "a", ".", "b" >>,
      << "a", ".", "b", ".", "a" >>, << "a", "." >>, << >> }

\* the values explored
ConfigValues == { PyStr("v"), PyInt(0), PyNone }

\* config files a Config object may be constructed from
InitialDataFiles ==
    { AbsentFile, CorruptFile,
      JsonFile(JsonOfValue(PyDict(Put(EmptyData, << "a" >>, PyStr("old"))))),
      JsonFile(JsonOfValue(PyDict(
          Put(EmptyData, << "a" >>,
              PyDict(Put(EmptyData, << "b" >>, PyInt(1))))))) }

InitDataFrom(files) ==
    /\ pc = "data"
    /\ profile = ""
    /\ port = NonePort
    /\ db_config = NoConfig
    /\ child = NoChild
    /\ waitLock = FALSE
    /\ installed = {}
    /\ shutdown_event = FALSE
    /\ hstack = << >>
    /\ sigCount = 0
    /\ exitKind = "none"
    /\ exitCode = 0
    /\ msgs = {}
    /\ ctr = ZeroCtr
    /\ cacheFile = AbsentFile
    /\ cache = load_cache(cacheFile)
    /\ dataFile \in files
    /\ data = load_config(dataFile)
    /\ store = EmptyStore
    /\ pipe = NoPipe
    /\ awsConfig = << >>
    /\ hist = [InitHist(cacheFile) EXCEPT !.set.before = data]

InitData == InitDataFrom(InitialDataFiles)

(* Config.set, config.py:95-114; a failure of save_config is caught and *)
(* printed, self.data is already updated                                *)
ConfigSetKey ==
    /\ pc = "data"
    /\ ctr.set < MaxSets
    /\ \E key \in KeyStrings, value \in ConfigValues, io \in IoOutcomes :
         /\ data' = Config_set(data, key, value)
         /\ dataFile' = save_config(data', dataFile, io)
         /\ hist' = [hist EXCEPT !.set.key = key, !.set.value = value]
         /\ msgs' = IF io = "ok" THEN msgs ELSE msgs \cup {"ErrorSavingConfig"}
    /\ ctr' = Bump("set")
    /\ UNCHANGED << pc, profile, port, db_config, child, waitLock, installed,
                    shutdown_event, hstack, sigCount, exitKind, exitCode,
                    cache, cacheFile, store, pipe, awsConfig >>

NextData == ConfigSetKey

SpecData == InitData /\ [][NextData]_vars

----------------------------------------------------------------------------
(* Config.get on a Config object loaded from a file *)

\* the defaults explored: left out (None), or given
ConfigDefaults == { PyNone, PyStr("dflt") }

\* config files left by an earlier process: the initial ones, and those a
\* Config.set call wrote over them
StoredDataFiles ==
    InitialDataFiles \cup
    { save_config(Config_set(load_config(f), k, v), f, "ok") :
        f \in InitialDataFiles, k \in KeyStrings, v \in ConfigValues }

(* Config.get, config.py:70-93: reads self.data, assigns nothing to it *)
ConfigGetKey ==
    /\ pc = "data"
    /\ \E key \in KeyStrings, default \in ConfigDefaults :
         hist' = [hist EXCEPT !.get =
                    [called |-> TRUE, key |-> key, default |-> default,
                     result |-> Config_get(data, key, default)]]
    /\ UNCHANGED << pc, profile, port, db_config, child, waitLock, installed,
                    shutdown_event, hstack, sigCount, exitKind, exitCode,
                    msgs, cache, cacheFile, data, dataFile, ctr, store, pipe, awsConfig >>

InitGet == InitDataFrom(StoredDataFiles)

NextGet == ConfigGetKey

SpecGet == InitGet /\ [][NextGet]_vars

----------------------------------------------------------------------------
(* Running, with a subprocess that writes to its captured output *)

\* the state in which connect_to_database installed its handlers, for
\* `db-connect -d hk-postgres-dev --profile houlak` and a free default port;
\* the subprocess has some output to write before it ends
InitPipe ==
    /\ pc = "wait_enter"
    /\ profile = "houlak"
    /\ port = PostgresLocalPort
    /\ db_config = SomeConfig(GoodRecord)
    /\ child = [NoChild EXCEPT !.st = "alive"]
    /\ waitLock = FALSE
    /\ installed = Signals
    /\ shutdown_event = FALSE
    /\ hstack = << >>
    /\ sigCount = 0
    /\ exitKind = "none"
    /\ exitCode = 0
    /\ msgs = {"Starting", "Connected"}
    /\ ctr = [ZeroCtr EXCEPT !.connect = 1, !.lookup = 1, !.probe = 1,
                             !.launch = 1, !.save = 1]
    /\ dataFile = AbsentFile
    /\ data = load_config(dataFile)
    /\ store = EmptyStore
    /\ awsConfig = << >>
    /\ \E f \in InitialFiles :
         /\ cache = save_last_connection(load_cache(f), database_name,
                                         EngineOf(db_config),
                                         EnvironmentOf(db_config), port, profile)
         /\ cacheFile = save_cache(cache, f, "ok")
         /\ hist = [InitHist(f) EXCEPT
                      !.session = "valid", !.lookup = "ok",
                      !.launch = LaunchArgs, !.io = "ok",
                      !.saved = [database |-> database_name,
                                 engine |-> EngineOf(db_config),
                                 env |-> EnvironmentOf(db_config),
                                 port |-> port, profile |-> profile]]
    /\ \E n \in 0 .. MaxOutput : pipe = [pending |-> n, buffered |-> 0]

(* aws_helper.py:181-186: stdout=PIPE, stderr=PIPE.  The subprocess writes *)
(* a chunk when the pipe has room; nothing reads the pipe during           *)
(* process.wait(), so a full pipe blocks the writer                        *)
ChildWrites ==
    /\ ~exited
    /\ child.st = "alive"
    /\ pipe.pending > 0
    /\ pipe.buffered < MaxPipe
    /\ pipe' = [pending |-> pipe.pending - 1, buffered |-> pipe.buffered + 1]
    /\ UNCHANGED << pc, profile, port, db_config, child, waitLock, installed,
                    shutdown_event, hstack, sigCount, exitKind, exitCode,
                    msgs, cache, cacheFile, data, dataFile, store, ctr, hist, awsConfig >>

NextPipe ==
    \/ EnterWait
    \/ WaitReturns
    \/ NaturalFinish
    \/ ChildWrites
    \/ ChildExits

\* the subprocess runs whenever it can, and so does the main flow
SpecPipe ==
    /\ InitPipe
    /\ [][NextPipe]_vars
    /\ WF_vars(ChildWrites)
    /\ WF_vars(ChildExits)
    /\ WF_vars(EnterWait)
    /\ WF_vars(WaitReturns)

----------------------------------------------------------------------------
(* setup_wizard.write_aws_profile on ~/.aws/config.  The file is kept as   *)
(* the sequence of its sections, each with the name in its header and the  *)
(* values of its body.                                                     *)

Section(name, values) == [name |-> name, values |-> values]

\* profile names and value sets the wizard is run with
ProfileNames == {"houlak", "other"}
ProfileValues == {"new", "newer"}

\* AWS config files the wizard may find
InitialAwsConfigs ==
    { << >>,
      << Section("houlak", "old") >>,
      << Section("other", "old") >>,
      << Section("other", "old"), Section("houlak", "old") >>,
      << Section("houlak", "old"), Section("other", "old") >> }

\* setup_wizard.py:58  the header of the profile occurs in the file
ProfileExists(content, name) ==
    \E i \in 1 .. Len(content) : content[i].name = name

\* setup_wizard.py:63-74  the content without the sections of the profile
RECURSIVE RemoveProfile(_, _)
RemoveProfile(content, name) ==
    IF content = << >> THEN << >>
    ELSE IF Head(content).name = name THEN RemoveProfile(Tail(content), name)
    ELSE << Head(content) >> \o RemoveProfile(Tail(content), name)

\* setup_wizard.py:88-92  open(aws_config_file, "a") and write: the new
\* section goes after what the file holds; existing_content, from which the
\* old section was removed, only decides whether a newline is written first
AppendProfile(file, existing_content, name, values) ==
    file \o << Section(name, values) >>

InitProfile ==
    /\ pc = "wizard"
    /\ profile = ""
    /\ port = NonePort
    /\ db_config = NoConfig
    /\ child = NoChild
    /\ waitLock = FALSE
    /\ installed = {}
    /\ shutdown_event = FALSE
    /\ hstack = << >>
    /\ sigCount = 0
    /\ exitKind = "none"
    /\ exitCode = 0
    /\ msgs = {}
    /\ ctr = ZeroCtr
    /\ cacheFile = AbsentFile
    /\ cache = load_cache(cacheFile)
    /\ dataFile = AbsentFile
    /\ data = load_config(dataFile)
    /\ store = EmptyStore
    /\ pipe = NoPipe
    /\ awsConfig \in InitialAwsConfigs
    /\ hist = InitHist(cacheFile)

(* setup_wizard.write_aws_profile, setup_wizard.py:23-98 *)
WriteAwsProfile ==
    /\ pc = "wizard"
    /\ ctr.write < MaxWrites
    /\ \E profile_name \in ProfileNames, values \in ProfileValues,
          answer \in BOOLEAN, io \in {"ok", "open_fails"} :
         LET exists == ProfileExists(awsConfig, profile_name)
             existing_content == IF exists
                                 THEN RemoveProfile(awsConfig, profile_name)
                                 ELSE awsConfig
             call == [name |-> profile_name, values |-> values,
                      asked |-> exists, answer |-> exists /\ answer,
                      returned |-> FALSE, before |-> awsConfig]
         IN IF exists /\ ~answer
            THEN /\ awsConfig' = awsConfig
                 /\ msgs' = msgs
                 /\ hist' = [hist EXCEPT !.write = call]
            ELSE IF io = "ok"
            THEN /\ awsConfig' = AppendProfile(awsConfig, existing_content,
                                               profile_name, values)
                 /\ msgs' = msgs \cup {"ProfileConfigured"}
                 /\ hist' = [hist EXCEPT !.write =
                                [call EXCEPT !.returned = TRUE]]
            ELSE /\ awsConfig' = awsConfig
                 /\ msgs' = msgs \cup {"ErrorWritingAwsConfig"}
                 /\ hist' = [hist EXCEPT !.write = call]
    /\ ctr' = Bump("write")
    /\ UNCHANGED << pc, profile, port, db_config, child, waitLock, installed,
                    shutdown_event, hstack, sigCount, exitKind, exitCode,
                    cache, cacheFile, data, dataFile, store, pipe >>

NextProfile == WriteAwsProfile

SpecProfile == InitProfile /\ [][NextProfile]_vars

----------------------------------------------------------------------------
(* cli.admin_db_add *)

\* stores the command may find: every admin-list parameter, with or without
\* an older record under one of the names
InitialStores ==
    { MkStore(a, d) : a \in AdminParams,
        d \in { [n \in DbNames |-> "absent"],
                [n \in DbNames |->
                    IF n = "hk-postgres-dev" THEN "old" ELSE "absent"] } }

InitAdmin ==
    /\ pc = "admin"
    /\ profile = ""
    /\ port = NonePort
    /\ db_config = NoConfig
    /\ child = NoChild
    /\ waitLock = FALSE
    /\ installed = {}
    /\ shutdown_event = FALSE
    /\ hstack = << >>
    /\ sigCount = 0
    /\ exitKind = "none"
    /\ exitCode = 0
    /\ msgs = {}
    /\ ctr = ZeroCtr
    /\ cacheFile = AbsentFile
    /\ cache = load_cache(cacheFile)
    /\ dataFile = AbsentFile
    /\ data = load_config(dataFile)
    /\ store \in InitialStores
    /\ pipe = NoPipe
    /\ awsConfig = << >>
    /\ hist = [InitHist(cacheFile) EXCEPT !.admin.store0 = store]

(* cli.py:270-272 with admin.require_admin, admin.py:150-172: only the    *)
(* caller found in the admin list goes on; a "users" that is not a list    *)
(* raises out of the command                                               *)
AdminRequire ==
    /\ pc = "admin"
    /\ \E identity \in StsOutcomes, arn \in Arns,
          lookup \in AdminLookupOutcomes, init \in PutOutcomes :
         LET current_user == get_current_aws_user(identity, arn)
             admins == get_admin_users(lookup, store.admins)
         IN /\ hist' = [hist EXCEPT !.admin.identity = identity,
                                     !.admin.arn = arn,
                                     !.admin.lookup =
                                        IF current_user.none THEN "none"
                                        ELSE lookup]
            /\ IF current_user.none
               THEN /\ store' = store
                    /\ ExitWith("hard", 1, {"NoIdentity"})
               ELSE /\ store' = [store EXCEPT !.admins =
                                    AdminsAfterLookup(lookup, @, init)]
                    /\ IF admins.none
                       THEN ExitWith("crash", 1, {"TypeError"})
                       ELSE IF ~is_admin_user(current_user.name, admins.users)
                       THEN ExitWith("hard", 1, {"AccessDenied"})
                       ELSE Goto("admin_add", {})
    /\ UNCHANGED << profile, port, db_config, child, waitLock, installed,
                    shutdown_event, sigCount, cache, cacheFile, data,
                    dataFile, ctr, pipe, awsConfig >>

(* cli.py:274-284 with admin.prompt_for_database_config and               *)
(* admin.add_database_to_parameter_store: int() of the port answer may     *)
(* raise; the record is put with Overwrite=True                            *)
AdminAdd ==
    /\ pc = "admin_add"
    /\ \E answer \in PromptAnswers, put \in PutOutcomes :
         IF ~answer.valid
         THEN /\ ctr' = Bump("prompt")
              /\ store' = store
              /\ ExitWith("crash", 1, {"ValueError"})
         ELSE /\ ctr' = [ctr EXCEPT !.prompt = @ + 1, !.put = @ + 1]
              /\ IF put = "ok"
                 THEN /\ store' = [store EXCEPT !.dbs[answer.name] =
                                                    answer.record]
                      /\ ExitWith("returned", 0, {"Adding", "Added"})
                 ELSE /\ store' = store
                      /\ ExitWith("hard", 1, {"Adding", "AddFailed"})
    /\ UNCHANGED << profile, port, db_config, child, waitLock, installed,
                    shutdown_event, sigCount, cache, cacheFile, data,
                    dataFile, hist, pipe, awsConfig >>

NextAdmin ==
    \/ AdminRequire
    \/ AdminAdd

SpecAdmin == InitAdmin /\ [][NextAdmin]_vars

----------------------------------------------------------------------------
(* validate_aws_session and find_available_port called on their own *)

InitFunctions ==
    /\ pc = "functions"
    /\ InitFrom({AbsentFile})

(* validators.validate_aws_session, validators.py:94-114 *)
CallValidateSession ==
    /\ pc = "functions"
    /\ \E identity \in IdentityOutcomes :
         LET c == validate_aws_session_call(identity)
         IN hist' = [hist EXCEPT !.call =
                [NoCall EXCEPT !.fn = "validate_aws_session",
                               !.identity = identity,
                               !.returncode = IdentityRun(identity).returncode,
                               !.raised = c.raised,
                               !.value = c.value]]
    /\ UNCHANGED << pc, profile, port, db_config, child, waitLock, installed,
                    shutdown_event, hstack, sigCount, exitKind, exitCode,
                    msgs, cache, cacheFile, data, dataFile, ctr, store, pipe, awsConfig >>

\* start ports of the scans explored
ScanStarts == {0, 5433, PostgresLocalPort}

\* busy ports around a window of the default size: every choice of whether
\* its first port, its last port and the port after it are free
DefaultWindowSets(start) ==
    { (start .. (start + MaxAttempts)) \ free :
        free \in SUBSET {start, start + MaxAttempts - 1, start + MaxAttempts} }

(* utils.find_available_port, utils.py:99-113, with max_attempts given or *)
(* left to its default                                                   *)
CallFindAvailablePort ==
    /\ pc = "functions"
    /\ \E start \in ScanStarts, defaulted \in BOOLEAN :
         \E max_attempts \in (IF defaulted THEN {MaxAttempts} ELSE 0 .. MaxScan) :
           \E used \in (IF defaulted THEN DefaultWindowSets(start)
                         ELSE SUBSET (start .. (start + MaxScan))) :
             hist' = [hist EXCEPT !.call =
                [NoCall EXCEPT !.fn = "find_available_port",
                               !.start_port = start,
                               !.max_attempts = max_attempts,
                               !.defaulted = defaulted,
                               !.used = used,
                               !.result = find_available_port(start, max_attempts,
                                                              used)]]
    /\ UNCHANGED << pc, profile, port, db_config, child, waitLock, installed,
                    shutdown_event, hstack, sigCount, exitKind, exitCode,
                    msgs, cache, cacheFile, data, dataFile, ctr, store, pipe, awsConfig >>

NextFunctions ==
    \/ CallValidateSession
    \/ CallFindAvailablePort

SpecFunctions == InitFunctions /\ [][NextFunctions]_vars

----------------------------------------------------------------------------
(* Properties *)

\* C1: one signal delivered while the supervisor is blocked in process.wait()
\* with the handlers installed moves it to Stopping, and the process then
\* exits with status 0 (unless a further signal is delivered), whatever the
\* subprocess does.
OneSignalInRunning ==
    /\ sigCount = 1
    /\ hist.sigAt = "wait"
    /\ Phase = "Stopping"

C1_OneSignalExitsZero ==
    /\ [][(pc = "wait" /\ hstack = << >> /\ Signal) => (Phase' = "Stopping")]_vars
    /\ OneSignalInRunning ~> (sigCount > 1 \/ (Phase = "Stopped" /\ exitCode = 0))

\* a single signal in Running, the subprocess had to be killed, exit status 0
C1_Witness ==
    /\ Phase = "Stopped"
    /\ exitCode = 0
    /\ sigCount = 1
    /\ hist.sigAt = "wait"
    /\ ctr.kill = 1

\* C2: however many signals are delivered and wherever they interrupt the
\* handler, terminate and kill are issued at most once, and a handler that
\* finds the shutdown flag set exits the process at once without touching
\* the subprocess.
C2_GracefulAtMostOnce ==
    /\ [](ctr.terminate <= 1 /\ ctr.kill <= 1)
    /\ [][(Running("check") /\ shutdown_event /\ HandlerCheck)
            => (exitKind' = "forced" /\ ctr' = ctr /\ child' = child)]_vars

\* a second signal arrived after the sequence had started and forced the exit
C2_Witness ==
    /\ exitKind = "forced"
    /\ sigCount = 2
    /\ ctr.terminate = 1

\* C3: the process exits 0 from the graceful stop only after a poll or wait
\* returned the subprocess's exit status.
C3_ExitZeroOnlyAfterReap ==
    ("Stopping" \in msgs /\ exited /\ exitCode = 0) => ReturncodeKnown(child)

\* the messages of a hard stop named by the exit-code contract
HardStopMessages ==
    {"NameError", "ProfileMissing", "NotFound", "Malformed", "NoPorts",
     "ErrorStarting", "StartFailed", "NoSession", "SsoFailed"}

\* C4: a hard stop (missing profile, record not found or malformed, no free
\* port, launch failure, declined or failed re-authentication) ends the
\* process with status 1; a natural end and a graceful interrupt-triggered
\* stop end it with status 0.
C4_ExitCodes ==
    /\ (msgs \cap HardStopMessages # {}) => (exited /\ exitCode = 1)
    /\ (exited /\ "EndedNaturally" \in msgs) => exitCode = 0
    /\ (exited /\ "Stopping" \in msgs /\ "ForceExit" \notin msgs) => exitCode = 0

\* the launcher raised: hard stop with status 1
C4_Witness ==
    /\ exited
    /\ "ErrorStarting" \in msgs
    /\ ctr.launch = 1
    /\ exitCode = 1

\* C5: a record lacking bastionInstanceId, rdsEndpoint or rdsPort is reported
\* as malformed, the process exits 1, and neither the prober nor the launcher
\* runs nor is the last connection written.
C5_MalformedIsHardStop ==
    (hist.lookup = "ok" /\ RequiredFieldsMissing(db_config.d))
        => /\ exited
           /\ exitCode = 1
           /\ "Malformed" \in msgs
           /\ "NotFound" \notin msgs
           /\ ctr.probe = 0
           /\ ctr.launch = 0
           /\ ctr.save = 0
           /\ cacheFile = hist.file0

\* C6: a lookup refused for lack of permissions is not reported as
\* "database not found".
C6_AccessDeniedDistinct ==
    hist.lookup = "AccessDeniedException" => "NotFound" \notin msgs

\* C7: a subprocess found exited with status 255 at the poll after the grace
\* period is diagnosed as the session/credential/connectivity class and the
\* process exits non-zero.
C7_Early255IsSessionClass ==
    ("StartFailed" \in msgs /\ child.code = 255)
        => /\ hist.diag = "DiagSession"
           /\ msgs \cap {"DiagTarget", "DiagAccess", "DiagGeneric"} = {}
           /\ exited
           /\ exitCode # 0

\* status 255 with a stderr that also names TargetNotConnected
C7_Witness ==
    /\ "StartFailed" \in msgs
    /\ child.code = 255
    /\ hist.stderr = {"TargetNotConnected"}
    /\ exited

\* C8: the last-connection record is written in the step that follows the
\* poll that found the subprocess alive, once, with the values of this
\* connection; until then, and in every execution that stops before it,
\* the cache and its file are as they were at start.
C8_SavedExactlyOnRunning ==
    /\ [](ctr.save <= 1)
    /\ [](ctr.save = 0 => (cache = load_cache(hist.file0) /\ cacheFile = hist.file0))
    /\ [](ctr.save = 1 =>
            /\ "Connected" \in msgs
            /\ get_last_connection(cache) =
                 [database |-> PyStr(database_name),
                  engine |-> EngineOf(db_config),
                  environment |-> EnvironmentOf(db_config),
                  port |-> PyInt(port), profile |-> PyStr(profile)])
    /\ []((exited /\ exitKind \in {"hard", "early", "crash"}) => ctr.save = 0)
    /\ [][(pc' = "save" /\ pc # "save") => (pc = "grace" /\ child.st = "alive")]_vars
    /\ [][(cache' # cache \/ cacheFile' # cacheFile)
            => (pc = "save" /\ pc' = "install" /\ ctr'.save = 1)]_vars

\* Running reached from a start with an older record: the record is replaced
C8_Witness ==
    /\ pc = "wait"
    /\ ctr.save = 1
    /\ hist.file0 = OldFile
    /\ hist.io = "ok"
    /\ get_last_connection(load_cache(cacheFile)) # OldConnection

\* C9 as stated: after saves, get_last_connection returns the record of the
\* most recent save, in this process and in a later one that loads the file.
C9_LaterProcessLoadsLastSave ==
    ctr.save > 0 => get_last_connection(cache) = ConnectionOf(hist.saved)

\* C9 amended: in the saving process get_last_connection returns exactly the
\* five values of the most recent save; a later process loads that record
\* from the cache file when the write of that save succeeded.
C9_SaveLoadRoundTrip ==
    ctr.save > 0 =>
        /\ pc = "config" =>
             get_last_connection(cache) = ConnectionOf(hist.saved)
        /\ hist.io = "ok" =>
             /\ get_last_connection(load_cache(cacheFile)) = ConnectionOf(hist.saved)
             /\ get_last_connection(cache) = ConnectionOf(hist.saved)

\* two saves over an older record, then a later process loads the second
C9_Witness ==
    /\ pc = "reloaded"
    /\ ctr.save = 2
    /\ hist.io = "ok"
    /\ hist.file0 = OldFile
    /\ get_last_connection(cache) = ConnectionOf(hist.saved)

\* C10: whatever the outcome of writing the cache file, the step that records
\* the connection goes on to install the handlers, and the exit status is the
\* one of the way the tunnel ended.
C10_SaveFailureNotFatal ==
    /\ [][(pc = "save" /\ pc' # "save")
            => (pc' = "install" \/ exitKind' = "signal")]_vars
    /\ [](hist.io \in {"open_fails", "write_fails"} =>
            /\ exitKind \notin {"hard", "early", "crash"}
            /\ exitKind \in {"graceful", "natural"} => exitCode = 0
            /\ exitKind = "forced" => exitCode = 1)

\* the write failed and the supervisor is blocked in process.wait()
C10_Witness ==
    /\ pc = "wait"
    /\ waitLock
    /\ installed = Signals
    /\ hist.io = "write_fails"
    /\ cacheFile = CorruptFile

\* C11: an invalid session leads to the offer of a login; when the offer is
\* declined or the login fails the process exits 1 and the lookup, the prober
\* and the launcher are never called; the lookup is reached only with a valid
\* session or after a successful login.
C11_ReauthOrHardStop ==
    /\ hist.session = "invalid" => hist.answer \in {"yes", "no"}
    /\ (hist.answer = "yes") <=> (ctr.login = 1)
    /\ ctr.login <= 1
    /\ (hist.answer = "no" \/ hist.login \in {"CalledProcessError", "Exception"})
          => /\ exitKind = "hard"
             /\ exitCode = 1
             /\ ctr.lookup = 0
             /\ ctr.probe = 0
             /\ ctr.launch = 0
    /\ (ctr.lookup > 0 \/ pc \notin {"cli", "validate", "exited"})
          => (hist.session = "valid" \/ hist.login = "ok")

\* the login flow was run and failed
C11_Witness ==
    /\ hist.session = "invalid"
    /\ hist.login = "CalledProcessError"
    /\ ctr.login = 1
    /\ exited

\* C12: validate_aws_session returns true only when the identity command
\* ended with exit status 0; when the command fails (non-zero status, missing
\* credentials, timeout, missing executable) it returns false, and in no case
\* does an exception leave it.
C12_ValidityIsBoolean ==
    hist.call.fn = "validate_aws_session" =>
        /\ hist.call.raised = "none"
        /\ hist.call.value <=> (hist.call.identity = "ok")
        /\ hist.call.value => hist.call.returncode = 0

\* the identity command timed out and the function returned false
C12_Witness ==
    /\ hist.call.fn = "validate_aws_session"
    /\ hist.call.identity = "timeout"
    /\ hist.call.raised = "none"
    /\ ~hist.call.value

\* C13: find_available_port returns the smallest port of the window
\* start_port .. start_port + max_attempts - 1 that is not in use, and None
\* exactly when every port of the window is in use; the window has 10 ports
\* when max_attempts is left out.
C13_SmallestFreePort ==
    hist.call.fn = "find_available_port" =>
        LET window == hist.call.start_port ..
                        (hist.call.start_port + hist.call.max_attempts - 1)
            free == window \ hist.call.used
        IN /\ hist.call.defaulted => hist.call.max_attempts = 10
           /\ (hist.call.result = NonePort) <=> (free = {})
           /\ free # {} =>
                 /\ hist.call.result \in free
                 /\ \A q \in free : hist.call.result <= q

\* default window whose only free port is its last one
C13_Witness ==
    /\ hist.call.fn = "find_available_port"
    /\ hist.call.defaulted
    /\ hist.call.start_port = PostgresLocalPort
    /\ hist.call.used = (PostgresLocalPort .. (PostgresLocalPort + 10)) \ {PostgresLocalPort + 9}
    /\ hist.call.result = PostgresLocalPort + 9

\* the default local port the port table gives for an engine name
ExpectedDefaultPort(engine) ==
    IF Lower(engine) \in {"mariadb", "mysql"} THEN 33060 ELSE 54320

\* C14 as stated: with no local port requested and the engine's default port free, the
\* tunnel is launched with that default port (54320 for postgres and
\* postgresql, 33060 for mariadb and mysql, 54320 for any other engine); with
\* a local port requested and free, it is launched with the requested port.
C14_LaunchedWithChosenPort ==
    /\ [][(pc = "port" /\ pc' = "launch") =>
            LET default == ExpectedDefaultPort(EngineOf(db_config).s)
            IN /\ (port = NonePort /\ default \notin hist'.used)
                     => port' = default
               /\ (port # NonePort /\ port \notin hist'.used)
                     => port' = port]_vars
    /\ [][(pc = "launch" /\ ctr'.launch = ctr.launch + 1)
            => hist'.launch.local_port = port]_vars

\* C14 amended: a requested port of 0 counts as no port requested; with no
\* port requested and the engine's default port free the tunnel is launched
\* with the default port, with a non-zero port requested and free it is
\* launched with the requested port.
C14_DefaultOrNonZeroRequest ==
    /\ [][(pc = "port" /\ pc' = "launch") =>
            LET default == ExpectedDefaultPort(EngineOf(db_config).s)
            IN /\ (port \in {NonePort, 0} /\ default \notin hist'.used)
                     => port' = default
               /\ (port \notin {NonePort, 0} /\ port \notin hist'.used)
                     => port' = port]_vars
    /\ [][(pc = "launch" /\ ctr'.launch = ctr.launch + 1)
            => (hist'.launch.local_port = port /\ port \notin hist.used)]_vars

\* an engine spelled "MariaDB", no busy port: launched on 33060
C14_Witness ==
    /\ ctr.launch = 1
    /\ EngineOf(db_config).s = "MariaDB"
    /\ hist.used = {}
    /\ hist.launch.local_port = 33060

\* the cause-and-remedy messages
DiagnosticMessages ==
    {"DiagSession", "DiagTarget", "DiagAccess", "DiagGeneric", "Nat255",
     "NatOther"}

\* C15: the lookup runs only after the session was found valid or the login
\* succeeded, the prober only after the lookup returned a complete record,
\* the launcher only after the prober settled on a free port, the recording
\* only after the launched subprocess was found alive; diagnostics are
\* printed only once the subprocess's exit was observed, within the grace
\* period or with a non-zero status.
C15_StepsInOrder ==
    /\ ctr.lookup > 0 => (hist.session = "valid" \/ hist.login = "ok")
    /\ ctr.probe > 0 =>
          /\ ctr.lookup = 1
          /\ hist.lookup = "ok"
          /\ ConfigTruthy(db_config)
          /\ ~RequiredFieldsMissing(db_config.d)
    /\ ctr.launch > 0 => (ctr.probe = 1 /\ port \notin hist.used)
    /\ ctr.save > 0 =>
          /\ ctr.launch = 1
          /\ child.st # "none"
          /\ "StartFailed" \notin msgs
    /\ (msgs \cap DiagnosticMessages # {}) =>
          /\ ReturncodeKnown(child)
          /\ ctr.launch = 1
          /\ "StartFailed" \in msgs \/ (ctr.save = 1 /\ child.code # 0)

\* every step ran and the tunnel then ended with status 255
C15_Witness ==
    /\ exitKind = "natural"
    /\ "Nat255" \in msgs
    /\ ctr.lookup = 1
    /\ ctr.probe = 1
    /\ ctr.launch = 1
    /\ ctr.save = 1

LaunchFailures == {"ErrorStarting", "StartFailed", "EndedUnexpectedly"}

\* C17: in one invocation the lookup and the launcher are each called at
\* most once, and once a launch failure, an early exit or an abnormal end of
\* the tunnel was reported nothing is looked up or launched again.
C17_NoRetry ==
    /\ [](ctr.launch <= 1 /\ ctr.lookup <= 1)
    /\ []((msgs \cap LaunchFailures # {}) => exited)
    /\ [][(msgs \cap LaunchFailures # {})
            => (ctr'.launch = ctr.launch /\ ctr'.lookup = ctr.lookup)]_vars

\* the tunnel ended with a non-zero status after a single launch
C17_Witness ==
    /\ exitKind = "natural"
    /\ "EndedUnexpectedly" \in msgs
    /\ ctr.launch = 1
    /\ ctr.lookup = 1

\* C18: db-connect without --profile and without extra arguments calls
\* connect_to_database with AWS_PROFILE, or else AWS_DEFAULT_PROFILE, of the
\* environment; when neither is set it reports the missing profile and
\* exits 1 without calling connect_to_database.
C18_EnvironmentProfile ==
    [][(pc = "cli" /\ hist'.inv = NoInvocation
          /\ hist.inv.flag = "" /\ hist.inv.args = << >>) =>
         LET e == Or(hist.inv.env.AWS_PROFILE, hist.inv.env.AWS_DEFAULT_PROFILE)
         IN IF e # ""
            THEN /\ pc' = "validate"
                 /\ ctr'.connect = 1
                 /\ profile' = e
            ELSE /\ pc' = "exited"
                 /\ exitCode' = 1
                 /\ "ProfileMissing" \in msgs'
                 /\ ctr'.connect = 0]_vars

\* the profile the stated precedence selects: --profile, then an inline
\* AWS_PROFILE or AWS_DEFAULT_PROFILE argument, then the environment
ExpectedProfile(inv) ==
    Or(inv.flag,
       Or(InlineValue(inv.args, "AWS_PROFILE"),
          Or(InlineValue(inv.args, "AWS_DEFAULT_PROFILE"),
             Or(inv.env.AWS_PROFILE, inv.env.AWS_DEFAULT_PROFILE))))

\* C19: whenever some source provides a profile, db-connect calls
\* connect_to_database once, with the profile selected by the precedence
\* --profile > inline argument > environment and with the given port.
C19_ProfilePrecedence ==
    [][(pc = "cli" /\ hist'.inv = NoInvocation
          /\ ExpectedProfile(hist.inv) # "") =>
         /\ pc' = "validate"
         /\ ctr'.connect = 1
         /\ profile' = ExpectedProfile(hist.inv)
         /\ port' = hist.inv.port]_vars

\* the positions of the dots of a key
Dots(key) == { i \in 1 .. Len(key) : key[i] = "." }

\* C20: after Config.set(key, value), Config.get(key) returns value, and
\* Config.get of every parent path of the key returns a dictionary from which
\* the rest of the key leads to value, the immediate parent holding value
\* under the last component; this after any earlier set calls, also when a
\* component of the path held a non-dictionary value before.
C20_SetThenGet ==
    ctr.set > 0 =>
        LET key == hist.set.key
            value == hist.set.value
        IN /\ Config_get(data, key, PyNone) = value
           /\ \A i \in Dots(key) :
                 LET parent == Config_get(data, SubSeq(key, 1, i - 1), PyNone)
                     rest == SubSeq(key, i + 1, Len(key))
                 IN /\ parent.t = "dict"
                    /\ GetFrom(parent, Split(rest), PyNone) = value
                    /\ (Dots(rest) = {}) =>
                          (rest \in DOMAIN parent.d /\ parent.d[rest] = value)

\* "a" held a string, then set("a.b", 0)
C20_Witness ==
    /\ ctr.set = 1
    /\ hist.set.key = << "a", ".", "b" >>
    /\ hist.set.value = PyInt(0)
    /\ << "a" >> \in DOMAIN hist.set.before
    /\ hist.set.before[<< "a" >>].t = "str"
    /\ Config_get(data, << "a" >>, PyNone) = PyDict(Put(EmptyData, << "b" >>, PyInt(0)))

\* the value stored at a path of components: Missing when a component is
\* absent or a component before the last is not a dictionary
RECURSIVE StoredAt(_, _)
StoredAt(value, keys) ==
    IF keys = << >> THEN value
    ELSE IF value.t # "dict" THEN Missing
    ELSE IF Head(keys) \notin DOMAIN value.d THEN Missing
    ELSE StoredAt(value.d[Head(keys)], Tail(keys))

\* C21: Config.get(key, default) returns the stored value when the path of
\* the key leads through dictionaries to a stored value that is not None, and
\* default in every other case (a component absent, a component before the
\* last not a dictionary, None stored); the call leaves the configuration and
\* its file as they were.
C21_GetDefault ==
    [][hist'.get # hist.get =>
         LET g == hist'.get
             stored == StoredAt(PyDict(data), Split(g.key))
         IN /\ g.result = IF stored \in {Missing, PyNone} THEN g.default
                           ELSE stored
            /\ data' = data
            /\ dataFile' = dataFile]_vars

\* "a" holds a string: get("a.b", "dflt") returns the default
C21_Witness ==
    /\ hist.get.called
    /\ hist.get.key = << "a", ".", "b" >>
    /\ hist.get.default = PyStr("dflt")
    /\ hist.get.result = PyStr("dflt")
    /\ << "a" >> \in DOMAIN data
    /\ data[<< "a" >>].t = "str"

\* the admin list the caller is checked against: the "users" of the stored
\* parameter when it could be read (no user when that is not a list), the
\* default admins otherwise
AdminListAtStart ==
    LET p == hist.admin.store0.admins
    IN IF hist.admin.lookup = "ok" /\ p.kind = "json" /\ p.has
       THEN IF p.null THEN {} ELSE p.users
       ELSE DEFAULT_ADMINS

\* the caller's identity was determined and its user name is in the list
CallerIsAdmin ==
    /\ hist.admin.identity = "ok"
    /\ hist.admin.lookup # "none"
    /\ \E a \in AdminListAtStart :
         Lower(a) = Lower(get_current_aws_user("ok", hist.admin.arn).name)

\* C22 as stated: admin-db-add prompts and writes a record only for a
\* caller whose identity was determined and whose user name is in the admin
\* list; for any other caller it exits 1 and the parameter store is as it
\* was.
C22_AdminOnlyStoreUnchanged ==
    /\ (ctr.prompt > 0 \/ ctr.put > 0 \/ pc = "admin_add") => CallerIsAdmin
    /\ (exited /\ ~CallerIsAdmin) =>
          (exitCode = 1 /\ store = hist.admin.store0)

\* C22 amended: for a caller that is not an admin the command exits 1
\* without prompting and with every database record as it was; the only
\* write it may have made is the creation of an absent admin-list parameter
\* with the default admins.
C22_AdminOnlyRecordsUnchanged ==
    /\ (ctr.prompt > 0 \/ ctr.put > 0 \/ pc = "admin_add") => CallerIsAdmin
    /\ store.dbs # hist.admin.store0.dbs => (CallerIsAdmin /\ ctr.put = 1)
    /\ (exited /\ ~CallerIsAdmin) =>
          /\ exitCode = 1
          /\ ctr.prompt = 0
          /\ ctr.put = 0
          /\ store.dbs = hist.admin.store0.dbs
          /\ \/ store.admins = hist.admin.store0.admins
             \/ /\ hist.admin.store0.admins = AbsentParam
                /\ store.admins = JsonUsers(DEFAULT_ADMINS)

\* the stored list names only "Mallory": a caller named "eperroud", one of
\* the default admins, is refused
C22_Witness ==
    /\ exited
    /\ exitCode = 1
    /\ "AccessDenied" \in msgs
    /\ hist.admin.arn = MkArn("user", "eperroud", "eperroud")
    /\ hist.admin.store0.admins = JsonUsers({"Mallory"})
    /\ hist.admin.lookup = "ok"
    /\ ctr.prompt = 0

\* C23: in the graceful path terminate is sent first, the waiting loop polls
\* at most 30 times, kill is sent only when the subprocess is still alive at
\* the poll that follows the loop, never before terminate and never once the
\* exit of the subprocess was observed, and the sequence ends.
C23_TerminatePollKill ==
    /\ [](ctr.kill > 0 => ctr.terminate > 0)
    /\ [](\A f \in 1 .. Len(hstack) : hstack[f].i < PollAttempts)
    /\ [][(Running("finalpoll") /\ hstack' # << >>
            /\ hstack'[Len(hstack')].pc = "kill") => child.st = "alive"]_vars
    /\ [][ctr'.kill > ctr.kill => ~ReturncodeKnown(child)]_vars
    /\ (hstack # << >>) ~> exited

\* C24: when the poll that follows the grace period finds the subprocess
\* exited, with whatever status, the supervisor goes from Starting to Failed:
\* the process exits 1, the handlers were never installed, and Running (the
\* recording of the connection, the banner, the blocking wait) never began.
C24_EarlyExitFails ==
    /\ [][(PollAfterGrace /\ child.st = "zombie")
            => (Phase = "Starting" /\ Phase' = "Failed")]_vars
    /\ [][(PollAfterGrace /\ child.st = "alive") => Phase' = "Running"]_vars
    /\ [](Phase = "Failed" =>
            /\ exited
            /\ exitCode = 1
            /\ "StartFailed" \in msgs
            /\ child.code \in ChildExitCodes
            /\ installed = {}
            /\ ctr.save = 0
            /\ "Connected" \notin msgs
            /\ ~waitLock)

\* the subprocess ended with status 0 within the grace period
C24_Witness ==
    /\ Phase = "Failed"
    /\ child.code = 0
    /\ ReturncodeKnown(child)
    /\ exitCode = 1

\* C25: the launcher is called with the bastion id, remote host, remote port
\* and region of the record that the lookup of this invocation returned
\* (us-east-1 when the record has no region), with the local port the prober
\* settled on and with the profile the command was given; the record and the
\* profile are those obtained before the launch, and what the cache file
\* held at start has no part in them.
C25_LaunchedFromLookup ==
    /\ [](ctr.launch > 0 =>
            /\ hist.lookup = "ok"
            /\ ~db_config.none
            /\ hist.launch.instance_id = db_config.d["bastionInstanceId"].s
            /\ hist.launch.remote_host = db_config.d["rdsEndpoint"].s
            /\ hist.launch.remote_port = db_config.d["rdsPort"].n
            /\ hist.launch.region = IF db_config.d["region"] = Missing
                                     THEN "us-east-1"
                                     ELSE db_config.d["region"].s
            /\ hist.launch.local_port = port
            /\ hist.launch.profile = profile)
    /\ [][db_config' # db_config => (pc = "lookup" /\ ctr'.lookup = 1)]_vars
    /\ [][profile' # profile => pc = "cli"]_vars
    /\ [][port' # port => pc \in {"cli", "port"}]_vars
    /\ [][hist'.launch # hist.launch => (pc = "launch" /\ ctr'.launch = 1)]_vars

\* a record without region, an older connection in the cache file: the
\* launch uses us-east-1 and nothing of the older connection
C25_Witness ==
    /\ ctr.launch = 1
    /\ db_config.d["region"] = Missing
    /\ hist.launch.region = "us-east-1"
    /\ hist.file0 = OldFile
    /\ hist.launch.profile # OldConnection.profile.s
    /\ hist.launch.remote_port = 3306

\* the class of causes and remedies a diagnostic message belongs to: the
\* 255 messages of both paths are one class, their fallback messages another
DiagClass(d) ==
    CASE d \in {"DiagSession", "Nat255"} -> "session"
      [] d \in {"DiagGeneric", "NatOther"} -> "generic"
      [] OTHER -> d

\* C26: for the exit status and captured stderr of a subprocess that failed
\* within the grace period, the early-failure diagnostics select the class
\* of causes and remedies that the natural-exit diagnostics select for the
\* same pair.
C26_SameDiagnostics ==
    (exited /\ "StartFailed" \in msgs /\ child.code # 0)
        => DiagClass(hist.diag) = DiagClass(NaturalDiagnosis(child.code))

\* C27: once the subprocess was launched, the process does not exit while
\* the subprocess is still alive, on any exit path: a signal before the
\* handlers are installed, the forced exit of a second signal, the exit
\* after a kill whose wait timed out.
C27_NoExitWhileChildAlive ==
    (exited /\ ctr.launch > 0) => child.st # "alive"

\* the port the probing starts from when a requested port of 0 is taken as
\* a request
RequestedOrDefault(p, c) ==
    IF p = NonePort THEN ExpectedDefaultPort(EngineOf(c).s) ELSE p

\* C28 as stated: the tunnel is launched on a port other than the requested
\* one (the engine default when none was requested) only after that port
\* was probed in use, the scan found a free port and the user confirmed it;
\* a decline or a scan without result exits 1 without launching; the
\* launcher never receives a port that its most recent probe found in use.
C28_SubstituteOnlyConfirmed ==
    /\ [][DeterminePort =>
            LET start == RequestedOrDefault(port, db_config)
            IN /\ (pc' = "launch" /\ port' # start) =>
                     /\ "PortInUse" \in msgs'
                     /\ hist'.confirm = "yes"
               /\ (hist'.confirm = "no" \/ "NoPorts" \in msgs') =>
                     (exited' /\ exitCode' = 1)]_vars
    /\ []((hist.confirm = "no" \/ "NoPorts" \in msgs) => ctr.launch = 0)
    /\ [](ctr.launch > 0 => hist.launch.local_port \notin hist.used)

\* C28 amended: as stated, a requested port of 0 counting as no request: the
\* tunnel is launched on a port other than the non-zero requested one (the
\* engine default when none or 0 was requested) only after that port was
\* probed in use, the scan from it found the first free port of the next
\* ten and the user confirmed it; a decline or a scan without result exits 1
\* without launching; the launcher never receives a port that its most
\* recent probe found in use.
C28_SubstituteOnlyConfirmedNonZero ==
    /\ [][DeterminePort =>
            LET start == IF port \in {NonePort, 0}
                         THEN ExpectedDefaultPort(EngineOf(db_config).s)
                         ELSE port
            IN /\ (pc' = "launch" /\ port' # start) =>
                     /\ "PortInUse" \in msgs'
                     /\ hist'.confirm = "yes"
                     /\ port' \in (start + 1) .. (start + MaxAttempts - 1)
                     /\ \A q \in start .. (port' - 1) : q \in hist'.used
               /\ pc' = "launch" => port' \notin hist'.used
               /\ (hist'.confirm = "no" \/ "NoPorts" \in msgs') =>
                     (exited' /\ exitCode' = 1 /\ "PortInUse" \in msgs')
               /\ "NoPorts" \in msgs' =>
                     \A q \in start .. (start + MaxAttempts - 1) :
                        q \in hist'.used]_vars
    /\ []((hist.confirm = "no" \/ "NoPorts" \in msgs) => ctr.launch = 0)
    /\ [](ctr.launch > 0 => hist.launch.local_port \notin hist.used)

\* port 5433 requested and busy, 5434 accepted and passed to the launcher
C28_Witness ==
    /\ ctr.launch = 1
    /\ hist.confirm = "yes"
    /\ hist.used = {5433}
    /\ hist.launch.local_port = 5434

\* C29: in Running, a subprocess that ends on its own once it has written
\* its output is eventually seen to have ended by the blocked wait, and the
\* natural-end path is taken, whatever the amount of output it writes to the
\* pipes that the supervisor does not read.
C29_NaturalEndObserved ==
    (pc = "wait_enter") ~> (pc = "natural")

\* the sections of a file for a profile name, and those of other names
SectionsOf(content, name) ==
    { i \in 1 .. Len(content) : content[i].name = name }

RECURSIVE OtherSections(_, _)
OtherSections(content, name) ==
    IF content = << >> THEN << >>
    ELSE IF Head(content).name = name THEN OtherSections(Tail(content), name)
    ELSE << Head(content) >> \o OtherSections(Tail(content), name)

\* C30: after write_aws_profile returned True for a profile that was in the
\* file (overwrite confirmed), the file holds exactly one section of that
\* profile, with the new values, and the sections of the other profiles as
\* they were; after a declined overwrite it returned False and the file is
\* as it was.
C30_OverwriteReplaces ==
    LET w == hist.write
    IN /\ (w.asked /\ w.returned) =>
             /\ Cardinality(SectionsOf(awsConfig, w.name)) = 1
             /\ \A i \in SectionsOf(awsConfig, w.name) :
                   awsConfig[i].values = w.values
             /\ OtherSections(awsConfig, w.name) =
                   OtherSections(w.before, w.name)
       /\ (w.asked /\ ~w.answer) =>
             (~w.returned /\ awsConfig = w.before)

====
